---- MODULE Spec2Model ----
(***************************************************************************)
(* Model of the GKE cluster resource of terraform-provider-google          *)
(* (google/resource_container_cluster.go): the Create, Read, Update and    *)
(* Delete handlers, the per-cluster mutex they take, the remote calls they *)
(* issue and the long-running operations they wait on.                     *)
(***************************************************************************)
EXTENDS Integers, Sequences, FiniteSets, TLC

\* ------------------------------------------------------------------ bounds
NumProcs == 2          \* concurrent handler invocations in one run
MaxWork == 4           \* total size (remote calls and final reads) of the invocations of a run
MaxPools == 2          \* node pools declared in a cluster configuration
MaxReadTries == 2      \* Get attempts of one Read before its budget elapses
MaxDeleteCalls == 16   \* Delete calls of one Delete before its budget elapses
MaxConcDeleteCalls == 3 \* the same, once a second invocation has started

Procs == 1..NumProcs

\* ------------------------------------------------------------- identities
ZoneLocation == "us-central1-a"
RegionLocation == "us-central1"

\* isZone: a location that names a zone (and not a region)
isZone(location) == location = ZoneLocation

Identities ==
  { [project |-> "proj", location |-> l, name |-> "c1"] : l \in {ZoneLocation, RegionLocation} }

\* The key formatted without the location.
containerClusterMutexKey_NoLocation(project, location, clusterName) ==
  <<"google-container-cluster", project, clusterName>>

\* fmt.Sprintf("google-container-cluster/%s/%s/%s", ...): the key as the
\* sequence of its "/"-separated parts (no part contains a "/").
containerClusterMutexKey(project, location, clusterName) ==
  <<"google-container-cluster", project, location, clusterName>>

LockKey(id) == containerClusterMutexKey(id.project, id.location, id.name)

\* ---------------------------------------------------------- configuration
\* The node_version block placed before the min_master_version block.
UpdateOrder_NodesFirst ==
  << "master_authorized_networks_config", "node_version", "min_master_version",
     "addons_config", "maintenance_policy", "additional_zones",
     "enable_legacy_abac", "monitoring_service", "network_policy", "node_pool",
     "logging_service", "pod_security_policy_config", "remove_default_node_pool" >>

\* The addons_config block placed before the version blocks.
UpdateOrder_AddonsFirst ==
  << "master_authorized_networks_config", "addons_config", "min_master_version",
     "node_version", "maintenance_policy", "additional_zones",
     "enable_legacy_abac", "monitoring_service", "network_policy", "node_pool",
     "logging_service", "pod_security_policy_config", "remove_default_node_pool" >>

\* The addons_config block placed between the two version blocks.
UpdateOrder_AddonsSecond ==
  << "master_authorized_networks_config", "min_master_version", "addons_config",
     "node_version", "maintenance_policy", "additional_zones",
     "enable_legacy_abac", "monitoring_service", "network_policy", "node_pool",
     "logging_service", "pod_security_policy_config", "remove_default_node_pool" >>

\* The node_pool loop placed before the network_policy block.
UpdateOrder_PoolsBeforeNetworkPolicy ==
  << "master_authorized_networks_config", "min_master_version", "node_version",
     "addons_config", "maintenance_policy", "additional_zones",
     "enable_legacy_abac", "monitoring_service", "node_pool", "network_policy",
     "logging_service", "pod_security_policy_config", "remove_default_node_pool" >>

\* The field groups of resourceContainerClusterUpdate, in the order of the
\* if-blocks of the function body.
UpdateOrder ==
  << "master_authorized_networks_config", "min_master_version", "node_version",
     "addons_config", "maintenance_policy", "additional_zones",
     "enable_legacy_abac", "monitoring_service", "network_policy", "node_pool",
     "logging_service", "pod_security_policy_config", "remove_default_node_pool" >>

NumGroups == Len(UpdateOrder)

Groups == { UpdateOrder[k] : k \in 1..NumGroups }

\* Scalar fields take the values 0 (the zero value: unset, false, "") and 1.
Fields == Groups \ {"node_pool"}

\* Version strings: 0 stands for "" (unset, and not parsable by go-version),
\* n in 1..9 for "1.n" and 10+n for "1.n-gke.1".
BadVersion == 0

\* The versions a master runs (master_version, read back from the cluster).
Versions == 1..3

\* strings.Split(v, "-")[0]: the version without its -gke.X suffix
VersionBase(v) == v % 10

\* version.NewVersion: fails on an unparsable string
NewVersionFails(v) == v = BadVersion

\* The comparison taking an equal version for a lower one.
LessThan_OrEqual(cur, des) == cur <= des

\* Version.LessThan on two parsed versions
LessThan(cur, des) == cur < des

ExtraZones == {"us-central1-b", "us-central1-c"}

\* d.HasChange(key)
HasChange(d, key) == d.old[key] # d.new[key]

\* d.GetOk(key): the value is set and is not the zero value of its type
GetOk(d, key) ==
  IF key = "additional_zones" THEN d.new[key] # {} ELSE d.new[key] # 0

\* The versioned features of the cluster resource: a configuration that sets
\* one of them is served by the v1beta1 client, every other one by v1.
ContainerClusterVersionedFeatures ==
  {"pod_security_policy_config", "private_cluster", "master_ipv4_cidr_block", "region"}

RequestedFeatures(d) ==
  { f \in ContainerClusterVersionedFeatures :
      \/ f = "region" /\ ~isZone(d.id.location)
      \/ f # "region" /\ f \in DOMAIN d.new /\ d.new[f] # 0 }

getContainerApiVersion(d) ==
  IF RequestedFeatures(d) = {} THEN "v1" ELSE "v1beta1"

\* ----------------------------------------------------------------- inputs
\* A ResourceData d: the identity, the prior state (old), the configuration
\* (new), the master version last read and the declared node pools (one flag
\* per pool: does the pool's configuration differ from its state).
OldZones == {"us-central1-b"}

BaseState ==
  [ f \in Fields |->
      IF f = "additional_zones" THEN OldZones
      ELSE IF f = "min_master_version" THEN 1 ELSE 0 ]

\* Groups whose prior value may be set, so that the change can unset them.
UnsetGroups == {"addons_config", "remove_default_node_pool", "pod_security_policy_config"}

VersionCases(ch) ==
  IF "min_master_version" \in ch
  THEN { <<mv, 2>> : mv \in Versions } \cup { <<1, BadVersion>> }
  ELSE { <<1, 1>> }

ZoneCases(ch, location) ==
  IF "additional_zones" \in ch
  THEN { ExtraZones, {"us-central1-c"}, {}, OldZones \cup {location} }
  ELSE { OldZones }

PoolCases == UNION { [1..k -> BOOLEAN] : k \in 0..MaxPools }

MkUpdate(id, ch, ones, vc, az, pools) ==
  [ kind |-> "update", id |-> id,
    old |-> [ f \in Fields |-> IF f \in ones THEN 1 ELSE BaseState[f] ],
    new |-> [ f \in Fields |->
                IF f = "additional_zones" THEN az
                ELSE IF f = "min_master_version" THEN vc[2]
                ELSE IF f \in ch THEN (IF f \in ones THEN 0 ELSE 1)
                ELSE IF f \in ones THEN 1 ELSE 0 ],
    master_version |-> vc[1],
    pools |-> pools ]

\* The ResourceData of the Updates that change the groups ch \subseteq within.
UpdateInputsOver(within, poolCases, room) ==
  UNION { UNION { UNION { UNION { { MkUpdate(id, ch, ones, vc, az, pools) :
                                      vc \in VersionCases(ch), az \in ZoneCases(ch, id.location) } :
                                  ones \in SUBSET (ch \cap UnsetGroups) } :
                          ch \in { c \in SUBSET within : Cardinality(c) + Len(pools) < room } } :
                  pools \in poolCases } :
          id \in Identities }

CreateFields ==
  { "min_master_version", "node_version", "additional_zones", "private_cluster",
    "master_ipv4_cidr_block", "ip_allocation_policy", "remove_default_node_pool" }

MkCreate(id, mmv, nv, az, priv, cidr, ipa, rdnp) ==
  [ kind |-> "create", id |-> id,
    old |-> [ f \in CreateFields |-> IF f = "additional_zones" THEN {} ELSE 0 ],
    new |-> [ f \in CreateFields |->
                CASE f = "min_master_version" -> mmv
                  [] f = "node_version" -> nv
                  [] f = "additional_zones" -> az
                  [] f = "private_cluster" -> priv
                  [] f = "master_ipv4_cidr_block" -> cidr
                  [] f = "ip_allocation_policy" -> ipa
                  [] OTHER -> rdnp ],
    master_version |-> 0,
    pools |-> << >> ]

\* Configurations that pass Create's checks, and the same with one check violated.
CreateInputs ==
  UNION { { MkCreate(id, 1, nv, {}, priv, priv, priv, rdnp) :
              nv \in {0, 11}, priv \in {0, 1}, rdnp \in {0, 1} }
          \cup { MkCreate(id, 1, 2, {}, 0, 0, 0, 0),
                 MkCreate(id, 0, 1, {}, 0, 0, 0, 0),
                 MkCreate(id, 1, 0, {id.location}, 0, 0, 0, 0),
                 MkCreate(id, 1, 0, {}, 1, 0, 1, 0),
                 MkCreate(id, 1, 0, {}, 1, 1, 0, 0) } :
          id \in Identities }

MkPlain(kind, id) ==
  [ kind |-> kind, id |-> id, old |-> BaseState, new |-> BaseState,
    master_version |-> 1, pools |-> << >> ]

\* The errors the remote rejects a Delete call with: the cluster is not ready
\* to be deleted (worth a retry), or the cluster is not found (final).
DeleteErrors == {"not_ready", "not_found"}

MkDelete(id, err) ==
  [ kind |-> "delete", id |-> id, old |-> BaseState, new |-> BaseState,
    master_version |-> 1, pools |-> << >>, err |-> err ]

DeleteInputs == { MkDelete(id, err) : id \in Identities, err \in DeleteErrors }

ReadInputs == { MkPlain("read", id) : id \in Identities }

NoInput == [ kind |-> "none" ]

\* Changed groups of an Update
Changed(d) == { f \in Fields : HasChange(d, f) }

\* The remote calls the changed groups ch can take: one each, two for
\* additional_zones.
Steps(ch) == Cardinality(ch) + (IF "additional_zones" \in ch THEN 1 ELSE 0)

\* The size of an invocation: its mutating remote calls and its final read
\* (a Read on its own counts for two, its Get being retried).
Cost(d) ==
  CASE d.kind = "update" -> 1 + Steps(Changed(d)) + Len(d.pools)
    [] d.kind = "create" -> 2 + d.new["remove_default_node_pool"]
    [] d.kind = "delete" -> 2
    [] d.kind = "read" -> 2
    [] OTHER -> 0

\* Groups an Update may change while other invocations run beside it. An
\* Update that changes any other group or declares node pools runs alone, and
\* so do a Create of a private cluster or with a node version and a Delete of
\* a cluster that is not found.
ConcGroups == {"node_version", "logging_service", "remove_default_node_pool"}

Light(d) ==
  CASE d.kind = "update" -> Changed(d) # {} /\ Changed(d) \subseteq ConcGroups
                            /\ d.pools = << >>
    [] d.kind = "create" -> d.new["private_cluster"] = 0 /\ d.new["node_version"] = 0
                            /\ d.new["additional_zones"] = {}
    [] d.kind = "delete" -> d.err = "not_ready"
    [] OTHER -> TRUE

LightUpdateInputs == { d \in UpdateInputsOver(ConcGroups, {<< >>}, MaxWork) : Light(d) }

LightCreateInputs == { d \in CreateInputs : Light(d) }

\* ------------------------------------------------------------------ state
VARIABLES
  pc,          \* position of each invocation in its handler
  inv,         \* the ResourceData each invocation was called with
  g,           \* Update: index in UpdateOrder of the block being executed
  sub,         \* Update: request number within additional_zones, pool index within node_pool
  calls,       \* the mutating remote calls each invocation issued, with their operations
  resId,       \* d.Id() of each invocation
  partialMode, \* d.Partial(...) of each invocation
  partial,     \* the keys passed to d.SetPartial
  result,      \* "none" while running, then "ok" or the kind of error returned
  acq,         \* number of mutexKV.Lock calls that returned, per invocation
  rel,         \* number of mutexKV.Unlock calls, per invocation
  count,       \* Delete: the attempt counter of the retry loop
  tries,       \* Read: what each Get attempt made so far observed
  mutexKV,     \* the process-wide lock table: key -> invocations holding the mutex
  room         \* what is left of MaxWork for further invocations of the run

vars == << pc, inv, g, sub, calls, resId, partialMode, partial, result, acq, rel,
           count, tries, mutexKV, room >>

Init ==
  /\ pc = [p \in Procs |-> "idle"]
  /\ inv = [p \in Procs |-> NoInput]
  /\ g = [p \in Procs |-> 1]
  /\ sub = [p \in Procs |-> 1]
  /\ calls = [p \in Procs |-> << >>]
  /\ resId = [p \in Procs |-> ""]
  /\ partialMode = [p \in Procs |-> FALSE]
  /\ partial = [p \in Procs |-> {}]
  /\ result = [p \in Procs |-> "none"]
  /\ acq = [p \in Procs |-> 0]
  /\ rel = [p \in Procs |-> 0]
  /\ count = [p \in Procs |-> 0]
  /\ tries = [p \in Procs |-> << >>]
  /\ mutexKV = << >>
  /\ room = MaxWork

\* --------------------------------------------------------------- mutexKV
\* MutexKV.Lock(key) returns only when no invocation holds the key's mutex;
\* the mutex of a key is created on the first Lock of that key.
Holders(key) == IF key \in DOMAIN mutexKV THEN mutexKV[key] ELSE {}

CanLock(key) == Holders(key) = {}

AfterLock(p, key) ==
  [ k \in DOMAIN mutexKV \cup {key} |-> IF k = key THEN Holders(key) \cup {p} ELSE mutexKV[k] ]

AfterUnlock(p, key) ==
  [ k \in DOMAIN mutexKV \cup {key} |-> IF k = key THEN Holders(key) \ {p} ELSE mutexKV[k] ]

Holds(p) == \E k \in DOMAIN mutexKV : p \in mutexKV[k]

\* ------------------------------------------------------------- admission
Started == { q \in Procs : inv[q].kind # "none" }

\* An invocation may start while the run has room for it (no invocation has
\* a Cost below 2); the invocations are interchangeable, so they start in the
\* order of their numbers.
MayStart(p) ==
  /\ room > 1
  /\ \A q \in Procs : q < p => q \in Started
  /\ \A q \in Started : count[q] < MaxConcDeleteCalls

Admissible(p, d) == Cost(d) <= room

\* The room an invocation leaves: one that is not Light runs alone.
RoomAfter(d) == IF Light(d) THEN room - Cost(d) ELSE 0

\* ---------------------------------------------------------------- helpers
Call(step, client, locked, p) ==
  [ step |-> step, client |-> client, acq |-> IF locked THEN acq[p] ELSE 0,
    sub |-> sub[p], req |-> {}, st |-> "running", w |-> "waiting" ]

\* The states a wait can find its operation in when it returns: DONE without
\* an error payload, DONE with one, or still running when the budget elapses.
WaitOutcomes == {"done", "error", "running"}

\* containerSharedOperationWait: success when the operation is DONE without an
\* error payload, failure when it is DONE with one, a timeout otherwise.
WaitResult(st) ==
  CASE st = "done" -> "ok"
    [] st = "error" -> "failed"
    [] OTHER -> "timeout"

\* The last call of p once its wait returned, having found the operation in st.
Waited(p, st) ==
  [ calls EXCEPT ![p] = [ @ EXCEPT ![Len(@)] = [ @ EXCEPT !.st = st, !.w = WaitResult(st) ] ] ]

\* ----------------------------------------------------------------- Update
\* The node_pool loop stepping over a pool.
NextPool_SkipsOne(k) == k + 2

\* The i++ of the node_pool loop.
NextPool(k) == k + 1

\* The logging_service block entered whether or not the field changed.
GroupWanted_LoggingAlways(d, grp) ==
  CASE grp = "node_pool" -> Len(d.pools) > 0
    [] grp = "remove_default_node_pool" -> HasChange(d, grp) /\ d.new[grp] = 1
    [] grp = "logging_service" -> TRUE
    [] OTHER -> HasChange(d, grp)

\* The condition of the if-block of a group.
GroupWanted(d, grp) ==
  CASE grp = "node_pool" -> Len(d.pools) > 0
    [] grp = "remove_default_node_pool" -> HasChange(d, grp) /\ d.new[grp] = 1
    [] OTHER -> HasChange(d, grp)

\* The first block at or after index k whose condition holds (NumGroups + 1
\* when there is none): the blocks before it are skipped.
NextBlock(d, k) ==
  LET later == { j \in k..NumGroups : GroupWanted(d, UpdateOrder[j]) }
  IN IF later = {} THEN NumGroups + 1
     ELSE CHOOSE j \in later : \A i \in later : j <= i

\* The checks a block makes on its inputs before it builds its request.
ValidationFails(d, grp) ==
  CASE grp = "min_master_version" ->
         NewVersionFails(d.new[grp]) \/ NewVersionFails(d.master_version)
    [] grp = "additional_zones" -> d.id.location \in d.new[grp]
    [] OTHER -> FALSE

\* Blocks that Convert their expanded configuration before calling lockedCall.
PreConverts(d, grp) ==
  \/ grp \in {"master_authorized_networks_config", "network_policy"}
  \/ grp \in {"addons_config", "maintenance_policy"} /\ GetOk(d, grp)

\* The first request of additional_zones sending the new zones only.
AzUnion_NewOnly(d) ==
  d.new["additional_zones"] \cup (IF isZone(d.id.location) THEN {d.id.location} ELSE {})

\* The first request built without azSet.Add(location).
AzUnion_NoOwnZone(d) == d.old["additional_zones"] \cup d.new["additional_zones"]

\* The locations sent by the two requests of the additional_zones block.
AzUnion(d) ==
  (d.old["additional_zones"] \cup d.new["additional_zones"])
    \cup (IF isZone(d.id.location) THEN {d.id.location} ELSE {})

AzNew(d) ==
  d.new["additional_zones"] \cup (IF isZone(d.id.location) THEN {d.id.location} ELSE {})

\* The master step issued without the LessThan guard.
StepNeeded_MasterAlways(d, grp, k) ==
  CASE grp = "addons_config" -> GetOk(d, grp)
    [] grp = "node_pool" -> k <= Len(d.pools) /\ d.pools[k]
    [] OTHER -> TRUE

\* Does the block (at request or pool number k) issue a remote step.
StepNeeded(d, grp, k) ==
  CASE grp = "min_master_version" -> LessThan(d.master_version, d.new[grp])
    [] grp = "addons_config" -> GetOk(d, grp)
    [] grp = "node_pool" -> k <= Len(d.pools) /\ d.pools[k]
    [] OTHER -> TRUE

\* The logging_service closure called directly instead of through lockedCall.
Locked_NotLogging(grp) == grp \notin {"remove_default_node_pool", "logging_service"}

\* Blocks whose remote step runs inside lockedCall.
Locked(grp) == grp # "remove_default_node_pool"

\* Closures that Convert the request for the v1beta1 client.
ClosureConverts(grp) ==
  grp \notin {"pod_security_policy_config", "remove_default_node_pool", "node_pool"}

\* The pod_security_policy_config block switching on the selected version.
ClientOf_AlwaysSelected(d, grp) == getContainerApiVersion(d)

\* The client a block's remote call goes to.
ClientOf(d, grp) ==
  IF grp = "pod_security_policy_config" THEN "v1beta1" ELSE getContainerApiVersion(d)

\* The locations a request carries (empty for every other request).
RequestOf(d, grp, k) ==
  IF grp = "additional_zones" THEN (IF k = 1 THEN AzUnion(d) ELSE AzNew(d)) ELSE {}

\* The node_version block without its d.SetPartial.
SetsPartial_NotNodeVersion(grp) == grp \notin {"remove_default_node_pool", "node_version"}

\* Blocks that call d.SetPartial once their last step succeeded.
SetsPartial(grp) == grp # "remove_default_node_pool"

UpdateBegin(p) ==
  /\ pc[p] = "idle"
  /\ MayStart(p)
  /\ \/ /\ Started = {}
        /\ \E id \in Identities, pools \in PoolCases :
           \E ch \in { c \in SUBSET Fields : Steps(c) + Len(pools) < MaxWork } :
           \E ones \in SUBSET (ch \cap UnsetGroups), vc \in VersionCases(ch),
              az \in ZoneCases(ch, id.location) :
             inv' = [inv EXCEPT ![p] = MkUpdate(id, ch, ones, vc, az, pools)]
     \/ /\ Started # {}
        /\ \E d \in LightUpdateInputs :
             /\ Admissible(p, d)
             /\ inv' = [inv EXCEPT ![p] = d]
  /\ resId' = [resId EXCEPT ![p] = inv'[p].id.name]
  /\ partialMode' = [partialMode EXCEPT ![p] = TRUE]
  /\ pc' = [pc EXCEPT ![p] = "u_check"]
  /\ g' = [g EXCEPT ![p] = NextBlock(inv'[p], 1)]
  /\ room' = RoomAfter(inv'[p])
  /\ UNCHANGED << sub, calls, partial, result, acq, rel, count, tries, mutexKV >>

\* A block whose condition holds, up to its lockedCall: fail its checks, go
\* on to the step, or end without one.
UpdateCheck(p) ==
  /\ pc[p] = "u_check"
  /\ g[p] <= NumGroups
  /\ LET d == inv[p]
         grp == UpdateOrder[g[p]]
     IN \/ /\ GroupWanted(d, grp)
           /\ ValidationFails(d, grp)
           /\ pc' = [pc EXCEPT ![p] = "done"]
           /\ result' = [result EXCEPT ![p] = "validation"]
           /\ UNCHANGED << g, sub, partial >>
        \/ /\ GroupWanted(d, grp)
           /\ ~ValidationFails(d, grp)
           /\ PreConverts(d, grp)
           /\ pc' = [pc EXCEPT ![p] = "done"]
           /\ result' = [result EXCEPT ![p] = "convert"]
           /\ UNCHANGED << g, sub, partial >>
        \/ /\ GroupWanted(d, grp)
           /\ ~ValidationFails(d, grp)
           /\ StepNeeded(d, grp, sub[p])
           /\ pc' = [pc EXCEPT ![p] = IF Locked(grp) THEN "u_lock" ELSE "u_call"]
           /\ UNCHANGED << g, sub, partial, result >>
        \/ /\ GroupWanted(d, grp)
           /\ ~ValidationFails(d, grp)
           /\ ~StepNeeded(d, grp, sub[p])
           /\ IF grp = "node_pool" /\ sub[p] <= Len(d.pools)
              THEN /\ sub' = [sub EXCEPT ![p] = NextPool(@)]
                   /\ UNCHANGED << g, partial >>
              ELSE /\ g' = [g EXCEPT ![p] = NextBlock(d, @ + 1)]
                   /\ sub' = [sub EXCEPT ![p] = 1]
                   /\ partial' = [partial EXCEPT ![p] =
                                    IF grp = "addons_config" THEN @ ELSE @ \cup {grp}]
           /\ UNCHANGED << pc, result >>
  /\ UNCHANGED << room, inv, calls, resId, partialMode, acq, rel, count, tries, mutexKV >>

\* lockedCall: take the cluster's mutex, then run the closure.
UpdateLock(p) ==
  /\ pc[p] = "u_lock"
  /\ CanLock(LockKey(inv[p].id))
  /\ mutexKV' = AfterLock(p, LockKey(inv[p].id))
  /\ acq' = [acq EXCEPT ![p] = @ + 1]
  /\ pc' = [pc EXCEPT ![p] = "u_call"]
  /\ UNCHANGED << room, inv, g, sub, calls, resId, partialMode, partial, result, rel, count, tries >>

\* The closure returned (or the unlocked step ended): lockedCall unlocks.
StepExit(p) ==
  IF Locked(UpdateOrder[g[p]])
  THEN /\ mutexKV' = AfterUnlock(p, LockKey(inv[p].id))
       /\ rel' = [rel EXCEPT ![p] = @ + 1]
  ELSE UNCHANGED << mutexKV, rel >>

\* The closure of a step: convert the request, issue the remote call.
UpdateDispatch(p) ==
  /\ pc[p] = "u_call"
  /\ LET d == inv[p]
         grp == UpdateOrder[g[p]]
         c == [ Call(grp, ClientOf(d, grp), Locked(grp), p) EXCEPT !.req = RequestOf(d, grp, sub[p]) ]
     IN \/ /\ ClosureConverts(grp)
           /\ getContainerApiVersion(d) = "v1beta1"
           /\ StepExit(p)
           /\ pc' = [pc EXCEPT ![p] = "done"]
           /\ result' = [result EXCEPT ![p] = "convert"]
           /\ UNCHANGED calls
        \/ /\ calls' = [calls EXCEPT ![p] = Append(@, [c EXCEPT !.st = "none", !.w = "rejected"])]
           /\ StepExit(p)
           /\ pc' = [pc EXCEPT ![p] = "done"]
           /\ result' = [result EXCEPT ![p] = "rejected"]
        \/ /\ calls' = [calls EXCEPT ![p] = Append(@, c)]
           /\ pc' = [pc EXCEPT ![p] = "u_wait"]
           /\ UNCHANGED << result, mutexKV, rel >>
  /\ UNCHANGED << room, inv, g, sub, resId, partialMode, partial, acq, count, tries >>

\* An Update that treats a timed-out wait as a success.
Proceeds_IgnoreTimeout(w) == w \in {"ok", "timeout"}

\* An Update that drops the error of a step.
Proceeds_Always(w) == TRUE

\* The `if err != nil { return err }` after every step: the function goes on
\* only when the step returned no error.
Proceeds(w) == w = "ok"

\* The closure's wait returned and lockedCall unlocked. On success the block
\* marks its key and the function goes on to the next request, pool or block;
\* on an error it returns.
UpdateWait(p) ==
  /\ pc[p] = "u_wait"
  /\ \E st \in WaitOutcomes :
     LET d == inv[p]
         grp == UpdateOrder[g[p]]
         w == WaitResult(st)
     IN /\ calls' = Waited(p, st)
        /\ StepExit(p)
        /\ IF Proceeds(w)
           THEN /\ UNCHANGED result
                /\ IF grp = "additional_zones" /\ sub[p] = 1 /\ AzUnion(d) # AzNew(d)
                   THEN /\ sub' = [sub EXCEPT ![p] = 2]
                        /\ pc' = [pc EXCEPT ![p] = "u_lock"]
                        /\ UNCHANGED << g, partial >>
                   ELSE IF grp = "node_pool"
                   THEN /\ sub' = [sub EXCEPT ![p] = NextPool(@)]
                        /\ pc' = [pc EXCEPT ![p] = "u_check"]
                        /\ UNCHANGED << g, partial >>
                   ELSE /\ sub' = [sub EXCEPT ![p] = 1]
                        /\ g' = [g EXCEPT ![p] = NextBlock(d, @ + 1)]
                        /\ pc' = [pc EXCEPT ![p] = "u_check"]
                        /\ partial' = [partial EXCEPT ![p] =
                                         IF SetsPartial(grp) THEN @ \cup {grp} ELSE @]
           ELSE /\ pc' = [pc EXCEPT ![p] = "done"]
                /\ result' = [result EXCEPT ![p] = w]
                /\ UNCHANGED << g, sub, partial >>
  /\ UNCHANGED << room, inv, resId, partialMode, acq, count, tries >>

\* Update going to its final read without d.Partial(false).
UpdateFinish_KeepsPartial(p) ==
  /\ pc[p] = "u_check"
  /\ g[p] > NumGroups
  /\ pc' = [pc EXCEPT ![p] = "read"]
  /\ UNCHANGED << room, inv, g, sub, calls, resId, partialMode, partial, result, acq, rel,
                  count, tries, mutexKV >>

\* d.Partial(false), then the final read.
UpdateFinish(p) ==
  /\ pc[p] = "u_check"
  /\ g[p] > NumGroups
  /\ partialMode' = [partialMode EXCEPT ![p] = FALSE]
  /\ pc' = [pc EXCEPT ![p] = "read"]
  /\ UNCHANGED << room, inv, g, sub, calls, resId, partial, result, acq, rel, count, tries, mutexKV >>

\* ------------------------------------------------------------- the remote
\* An operation that no wait is watching any more (the wait timed out, or was
\* never made) reaches DONE, with or without an error payload.
RemoteProgress(p) ==
  /\ \E i \in 1..Len(calls[p]) :
       /\ calls[p][i].st = "running"
       /\ calls[p][i].w # "waiting"
       /\ \E s \in {"done", "error"} :
            calls' = [calls EXCEPT ![p] = [ @ EXCEPT ![i] = [ @ EXCEPT !.st = s ] ] ]
  /\ UNCHANGED << room, pc, inv, g, sub, resId, partialMode, partial, result, acq, rel,
                  count, tries, mutexKV >>

\* ------------------------------------------------------------------- Read
\* Create without its deferred Unlock.
ReturnUnlock_DeleteOnly(p) ==
  IF inv[p].kind = "delete"
  THEN /\ mutexKV' = AfterUnlock(p, LockKey(inv[p].id))
       /\ rel' = [rel EXCEPT ![p] = @ + 1]
  ELSE UNCHANGED << mutexKV, rel >>

\* Mutex a handler releases when it returns (the deferred Unlock of Create
\* and Delete); Read and Update have none.
ReturnUnlock(p) ==
  IF inv[p].kind \in {"create", "delete"}
  THEN /\ mutexKV' = AfterUnlock(p, LockKey(inv[p].id))
       /\ rel' = [rel EXCEPT ![p] = @ + 1]
  ELSE UNCHANGED << mutexKV, rel >>

\* handleNotFoundError(err, d, ...): what becomes of the error of the retried
\* Get. Every error that is not absorbed by a retry propagates to the caller,
\* and the ID is left as it is.
handleNotFoundError(err) == [ err |-> err, clearsId |-> FALSE ]

\* Read taking the lock of the cluster before its Get.
ReadBegin_Locks(p) ==
  /\ pc[p] = "idle"
  /\ MayStart(p)
  /\ \E d \in ReadInputs :
       /\ Admissible(p, d)
       /\ CanLock(LockKey(d.id))
       /\ inv' = [inv EXCEPT ![p] = d]
       /\ resId' = [resId EXCEPT ![p] = d.id.name]
       /\ room' = RoomAfter(d)
       /\ mutexKV' = AfterLock(p, LockKey(d.id))
  /\ acq' = [acq EXCEPT ![p] = @ + 1]
  /\ pc' = [pc EXCEPT ![p] = "read"]
  /\ UNCHANGED << g, sub, calls, partialMode, partial, result, rel, count, tries >>

\* resourceContainerClusterRead called on its own: no lock is taken.
ReadBegin(p) ==
  /\ pc[p] = "idle"
  /\ MayStart(p)
  /\ \E d \in ReadInputs :
       /\ Admissible(p, d)
       /\ inv' = [inv EXCEPT ![p] = d]
       /\ resId' = [resId EXCEPT ![p] = d.id.name]
       /\ room' = RoomAfter(d)
  /\ pc' = [pc EXCEPT ![p] = "read"]
  /\ UNCHANGED << g, sub, calls, partialMode, partial, result, acq, rel, count, tries, mutexKV >>

\* Read retrying the Get when the Get itself returned an error.
ReadGet_RetriesErrors(p) ==
  /\ pc[p] = "read"
  /\ \E outcome \in {"error", "RUNNING", "PROVISIONING"} :
       \/ /\ outcome = "error"
          /\ Len(tries[p]) + 1 < MaxReadTries
          /\ tries' = [tries EXCEPT ![p] = Append(@, outcome)]
          /\ UNCHANGED << pc, result, resId, mutexKV, rel >>
       \/ /\ outcome = "error"
          /\ pc' = [pc EXCEPT ![p] = "done"]
          /\ result' = [result EXCEPT ![p] = handleNotFoundError("read_error").err]
          /\ resId' = [resId EXCEPT ![p] =
                         IF handleNotFoundError("read_error").clearsId THEN "" ELSE @]
          /\ tries' = [tries EXCEPT ![p] = Append(@, outcome)]
          /\ ReturnUnlock(p)
       \/ /\ outcome = "RUNNING"
          /\ pc' = [pc EXCEPT ![p] = "done"]
          /\ result' = [result EXCEPT ![p] = "ok"]
          /\ tries' = [tries EXCEPT ![p] = Append(@, outcome)]
          /\ ReturnUnlock(p)
          /\ UNCHANGED resId
       \/ /\ outcome = "PROVISIONING"
          /\ Len(tries[p]) + 1 < MaxReadTries
          /\ tries' = [tries EXCEPT ![p] = Append(@, outcome)]
          /\ UNCHANGED << pc, result, resId, mutexKV, rel >>
       \/ /\ outcome = "PROVISIONING"
          /\ pc' = [pc EXCEPT ![p] = "done"]
          /\ result' = [result EXCEPT ![p] = handleNotFoundError("read_timeout").err]
          /\ resId' = [resId EXCEPT ![p] =
                         IF handleNotFoundError("read_timeout").clearsId THEN "" ELSE @]
          /\ tries' = [tries EXCEPT ![p] = Append(@, outcome)]
          /\ ReturnUnlock(p)
  /\ UNCHANGED << room, inv, g, sub, calls, partialMode, partial, acq, count >>

\* One attempt of the retried Get: an error of the Get ends the read, a
\* status other than RUNNING is retried until the 2 minutes have elapsed.
ReadGet(p) ==
  /\ pc[p] = "read"
  /\ \E outcome \in {"error", "RUNNING", "PROVISIONING"} :
       \/ /\ outcome = "error"
          /\ pc' = [pc EXCEPT ![p] = "done"]
          /\ result' = [result EXCEPT ![p] = handleNotFoundError("read_error").err]
          /\ resId' = [resId EXCEPT ![p] =
                         IF handleNotFoundError("read_error").clearsId THEN "" ELSE @]
          /\ tries' = [tries EXCEPT ![p] = Append(@, outcome)]
          /\ ReturnUnlock(p)
       \/ /\ outcome = "RUNNING"
          /\ pc' = [pc EXCEPT ![p] = "done"]
          /\ result' = [result EXCEPT ![p] = "ok"]
          /\ tries' = [tries EXCEPT ![p] = Append(@, outcome)]
          /\ ReturnUnlock(p)
          /\ UNCHANGED resId
       \/ /\ outcome = "PROVISIONING"
          /\ Len(tries[p]) + 1 < MaxReadTries
          /\ tries' = [tries EXCEPT ![p] = Append(@, outcome)]
          /\ UNCHANGED << pc, result, resId, mutexKV, rel >>
       \/ /\ outcome = "PROVISIONING"
          /\ pc' = [pc EXCEPT ![p] = "done"]
          /\ result' = [result EXCEPT ![p] = handleNotFoundError("read_timeout").err]
          /\ resId' = [resId EXCEPT ![p] =
                         IF handleNotFoundError("read_timeout").clearsId THEN "" ELSE @]
          /\ tries' = [tries EXCEPT ![p] = Append(@, outcome)]
          /\ ReturnUnlock(p)
  /\ UNCHANGED << room, inv, g, sub, calls, partialMode, partial, acq, count >>

\* ----------------------------------------------------------------- Create
\* Create without the checks of a private cluster.
CreateValidationFails_NoPrivate(d) ==
  LET InitialClusterVersion ==
        IF GetOk(d, "min_master_version") THEN d.new["min_master_version"] ELSE 0
  IN \/ /\ GetOk(d, "node_version")
        /\ VersionBase(InitialClusterVersion) # VersionBase(d.new["node_version"])
     \/ /\ GetOk(d, "additional_zones")
        /\ d.id.location \in d.new["additional_zones"]

\* The cross-field checks Create makes while it builds the cluster object.
CreateValidationFails(d) ==
  LET InitialClusterVersion ==
        IF GetOk(d, "min_master_version") THEN d.new["min_master_version"] ELSE 0
  IN \/ /\ GetOk(d, "node_version")
        /\ VersionBase(InitialClusterVersion) # VersionBase(d.new["node_version"])
     \/ /\ GetOk(d, "additional_zones")
        /\ d.id.location \in d.new["additional_zones"]
     \/ /\ d.new["private_cluster"] = 1
        /\ \/ d.new["master_ipv4_cidr_block"] = 0
           \/ d.new["ip_allocation_policy"] = 0

CreateBegin(p) ==
  /\ pc[p] = "idle"
  /\ MayStart(p)
  /\ \E d \in (IF Started = {} THEN CreateInputs ELSE LightCreateInputs) :
       /\ Admissible(p, d)
       /\ inv' = [inv EXCEPT ![p] = d]
       /\ room' = RoomAfter(d)
       /\ IF CreateValidationFails(d)
          THEN /\ pc' = [pc EXCEPT ![p] = "done"]
               /\ result' = [result EXCEPT ![p] = "validation"]
          ELSE /\ pc' = [pc EXCEPT ![p] = "c_lock"]
               /\ UNCHANGED result
  /\ UNCHANGED << g, sub, calls, resId, partialMode, partial, acq, rel, count, tries, mutexKV >>

\* Create going on without waiting for the mutex to be free.
CreateLock_NoWait(p) ==
  /\ pc[p] = "c_lock"
  /\ mutexKV' = AfterLock(p, LockKey(inv[p].id))
  /\ acq' = [acq EXCEPT ![p] = @ + 1]
  /\ pc' = [pc EXCEPT ![p] = "c_call"]
  /\ UNCHANGED << room, inv, g, sub, calls, resId, partialMode, partial, result, rel, count, tries >>

CreateLock(p) ==
  /\ pc[p] = "c_lock"
  /\ CanLock(LockKey(inv[p].id))
  /\ mutexKV' = AfterLock(p, LockKey(inv[p].id))
  /\ acq' = [acq EXCEPT ![p] = @ + 1]
  /\ pc' = [pc EXCEPT ![p] = "c_call"]
  /\ UNCHANGED << room, inv, g, sub, calls, resId, partialMode, partial, result, rel, count, tries >>

\* Convert the request and issue the create call; the ID is set once the
\* call is accepted.
CreateDispatch(p) ==
  /\ pc[p] = "c_call"
  /\ LET d == inv[p]
         c == Call("create", getContainerApiVersion(d), TRUE, p)
     IN \/ /\ pc' = [pc EXCEPT ![p] = "done"]
           /\ result' = [result EXCEPT ![p] = "convert"]
           /\ ReturnUnlock(p)
           /\ UNCHANGED << calls, resId >>
        \/ /\ calls' = [calls EXCEPT ![p] = Append(@, [c EXCEPT !.st = "none", !.w = "rejected"])]
           /\ pc' = [pc EXCEPT ![p] = "done"]
           /\ result' = [result EXCEPT ![p] = "rejected"]
           /\ ReturnUnlock(p)
           /\ UNCHANGED resId
        \/ /\ calls' = [calls EXCEPT ![p] = Append(@, c)]
           /\ resId' = [resId EXCEPT ![p] = d.id.name]
           /\ pc' = [pc EXCEPT ![p] = "c_wait"]
           /\ UNCHANGED << result, mutexKV, rel >>
  /\ UNCHANGED << room, inv, g, sub, partialMode, partial, acq, count, tries >>

\* Create returning the error of the wait without d.SetId("").
CreateWait_KeepsId(p) ==
  /\ pc[p] = "c_wait"
  /\ \E st \in WaitOutcomes :
     LET d == inv[p]
     IN \/ /\ st = "done"
           /\ calls' = Waited(p, st)
           /\ pc' = [pc EXCEPT ![p] =
                       IF d.new["remove_default_node_pool"] = 1 THEN "c_rm_call" ELSE "read"]
           /\ UNCHANGED << resId, result, mutexKV, rel >>
        \/ /\ st \in {"error", "running"}
           /\ calls' = Waited(p, st)
           /\ pc' = [pc EXCEPT ![p] = "done"]
           /\ result' = [result EXCEPT ![p] = WaitResult(st)]
           /\ ReturnUnlock(p)
           /\ UNCHANGED resId
  /\ UNCHANGED << room, inv, g, sub, partialMode, partial, acq, count, tries >>

\* Create removing the default node pool whether or not it was asked to.
CreateWait_RemovesUnasked(p) ==
  /\ pc[p] = "c_wait"
  /\ \E st \in WaitOutcomes :
        \/ /\ st = "done"
           /\ calls' = Waited(p, st)
           /\ pc' = [pc EXCEPT ![p] = "c_rm_call"]
           /\ UNCHANGED << resId, result, mutexKV, rel >>
        \/ /\ st \in {"error", "running"}
           /\ calls' = Waited(p, st)
           /\ resId' = [resId EXCEPT ![p] = ""]
           /\ pc' = [pc EXCEPT ![p] = "done"]
           /\ result' = [result EXCEPT ![p] = WaitResult(st)]
           /\ ReturnUnlock(p)
  /\ UNCHANGED << room, inv, g, sub, partialMode, partial, acq, count, tries >>

\* Create taking the lock again before it removes the default node pool.
CreateWait_Relocks(p) ==
  /\ pc[p] = "c_wait"
  /\ \E st \in WaitOutcomes :
     LET d == inv[p]
     IN \/ /\ st = "done"
           /\ calls' = Waited(p, st)
           /\ pc' = [pc EXCEPT ![p] =
                       IF d.new["remove_default_node_pool"] = 1 THEN "c_lock" ELSE "read"]
           /\ UNCHANGED << resId, result, mutexKV, rel >>
        \/ /\ st \in {"error", "running"}
           /\ calls' = Waited(p, st)
           /\ resId' = [resId EXCEPT ![p] = ""]
           /\ pc' = [pc EXCEPT ![p] = "done"]
           /\ result' = [result EXCEPT ![p] = WaitResult(st)]
           /\ ReturnUnlock(p)
  /\ UNCHANGED << room, inv, g, sub, partialMode, partial, acq, count, tries >>

\* The wait on the creation: a failed wait clears the ID and returns.
CreateWait(p) ==
  /\ pc[p] = "c_wait"
  /\ \E st \in WaitOutcomes :
     LET d == inv[p]
     IN \/ /\ st = "done"
           /\ calls' = Waited(p, st)
           /\ pc' = [pc EXCEPT ![p] =
                       IF d.new["remove_default_node_pool"] = 1 THEN "c_rm_call" ELSE "read"]
           /\ UNCHANGED << resId, result, mutexKV, rel >>
        \/ /\ st \in {"error", "running"}
           /\ calls' = Waited(p, st)
           /\ resId' = [resId EXCEPT ![p] = ""]
           /\ pc' = [pc EXCEPT ![p] = "done"]
           /\ result' = [result EXCEPT ![p] = WaitResult(st)]
           /\ ReturnUnlock(p)
  /\ UNCHANGED << room, inv, g, sub, partialMode, partial, acq, count, tries >>

\* Create taking the lock of the cluster again for the removal of the default
\* node pool, while it holds it.
CreateRemoveDispatch_LocksAgain(p) ==
  /\ pc[p] = "c_rm_call"
  /\ pc' = [pc EXCEPT ![p] = "c_lock"]
  /\ UNCHANGED << room, inv, g, sub, calls, resId, partialMode, partial, result, acq, rel,
                  count, tries, mutexKV >>

\* The removal of the default node pool that follows a successful creation.
CreateRemoveDispatch(p) ==
  /\ pc[p] = "c_rm_call"
  /\ LET d == inv[p]
         c == Call("remove_default_node_pool", getContainerApiVersion(d), TRUE, p)
     IN \/ /\ calls' = [calls EXCEPT ![p] = Append(@, [c EXCEPT !.st = "none", !.w = "rejected"])]
           /\ pc' = [pc EXCEPT ![p] = "done"]
           /\ result' = [result EXCEPT ![p] = "rejected"]
           /\ ReturnUnlock(p)
        \/ /\ calls' = [calls EXCEPT ![p] = Append(@, c)]
           /\ pc' = [pc EXCEPT ![p] = "c_rm_wait"]
           /\ UNCHANGED << result, mutexKV, rel >>
  /\ UNCHANGED << room, inv, g, sub, resId, partialMode, partial, acq, count, tries >>

\* Create clearing the ID when the removal of the default node pool fails.
CreateRemoveWait_ClearsId(p) ==
  /\ pc[p] = "c_rm_wait"
  /\ \E st \in WaitOutcomes :
        \/ /\ st = "done"
           /\ calls' = Waited(p, st)
           /\ pc' = [pc EXCEPT ![p] = "read"]
           /\ UNCHANGED << resId, result, mutexKV, rel >>
        \/ /\ st \in {"error", "running"}
           /\ calls' = Waited(p, st)
           /\ resId' = [resId EXCEPT ![p] = ""]
           /\ pc' = [pc EXCEPT ![p] = "done"]
           /\ result' = [result EXCEPT ![p] = WaitResult(st)]
           /\ ReturnUnlock(p)
  /\ UNCHANGED << room, inv, g, sub, partialMode, partial, acq, count, tries >>

CreateRemoveWait(p) ==
  /\ pc[p] = "c_rm_wait"
  /\ \E st \in WaitOutcomes :
        \/ /\ st = "done"
           /\ calls' = Waited(p, st)
           /\ pc' = [pc EXCEPT ![p] = "read"]
           /\ UNCHANGED << result, mutexKV, rel >>
        \/ /\ st \in {"error", "running"}
           /\ calls' = Waited(p, st)
           /\ pc' = [pc EXCEPT ![p] = "done"]
           /\ result' = [result EXCEPT ![p] = WaitResult(st)]
           /\ ReturnUnlock(p)
  /\ UNCHANGED << room, inv, g, sub, resId, partialMode, partial, acq, count, tries >>

\* ----------------------------------------------------------------- Delete
DeleteRetryCap == 15

DeleteBegin(p) ==
  /\ pc[p] = "idle"
  /\ MayStart(p)
  /\ \E d \in DeleteInputs :
       /\ Admissible(p, d)
       /\ inv' = [inv EXCEPT ![p] = d]
       /\ resId' = [resId EXCEPT ![p] = d.id.name]
       /\ room' = RoomAfter(d)
  /\ pc' = [pc EXCEPT ![p] = "d_lock"]
  /\ UNCHANGED << g, sub, calls, partialMode, partial, result, acq, rel, count, tries, mutexKV >>

DeleteLock(p) ==
  /\ pc[p] = "d_lock"
  /\ CanLock(LockKey(inv[p].id))
  /\ mutexKV' = AfterLock(p, LockKey(inv[p].id))
  /\ acq' = [acq EXCEPT ![p] = @ + 1]
  /\ pc' = [pc EXCEPT ![p] = "d_call"]
  /\ UNCHANGED << room, inv, g, sub, calls, resId, partialMode, partial, result, rel, count, tries >>

\* Delete clearing the ID whenever its retry loop ends.
DeleteCall_ClearsIdOnGiveUp(p) ==
  /\ pc[p] = "d_call"
  /\ count' = [count EXCEPT ![p] = @ + 1]
  /\ LET c == Call("delete", "v1beta1", TRUE, p)
     IN \/ /\ calls' = [calls EXCEPT ![p] = Append(@, [c EXCEPT !.st = "none", !.w = "rejected"])]
           /\ \/ /\ count[p] + 1 < (IF Started = {p} THEN MaxDeleteCalls ELSE MaxConcDeleteCalls)
                 /\ UNCHANGED << pc, result, resId, mutexKV, rel >>
              \/ /\ pc' = [pc EXCEPT ![p] = "done"]
                 /\ result' = [result EXCEPT ![p] = "retry_timeout"]
                 /\ resId' = [resId EXCEPT ![p] = ""]
                 /\ ReturnUnlock(p)
        \/ /\ count[p] + 1 # DeleteRetryCap
           /\ calls' = [calls EXCEPT ![p] = Append(@, c)]
           /\ pc' = [pc EXCEPT ![p] = "d_wait"]
           /\ UNCHANGED << result, resId, mutexKV, rel >>
        \/ /\ count[p] + 1 = DeleteRetryCap
           /\ calls' = [calls EXCEPT ![p] = Append(@, [c EXCEPT !.w = "unwaited"])]
           /\ pc' = [pc EXCEPT ![p] = "done"]
           /\ result' = [result EXCEPT ![p] = "retries"]
           /\ resId' = [resId EXCEPT ![p] = ""]
           /\ ReturnUnlock(p)
  /\ UNCHANGED << room, inv, g, sub, partialMode, partial, acq, tries >>

\* One attempt of the retried Delete call. Any error of the call is retried
\* until the 30 seconds have elapsed; an accepted call ends the loop, with an
\* error when it is the 15th attempt.
DeleteCall(p) ==
  /\ pc[p] = "d_call"
  /\ count' = [count EXCEPT ![p] = @ + 1]
  /\ LET c == Call("delete", "v1beta1", TRUE, p)
     IN \/ /\ calls' = [calls EXCEPT ![p] = Append(@, [c EXCEPT !.st = "none", !.w = "rejected"])]
           /\ \/ /\ count[p] + 1 < (IF Started = {p} THEN MaxDeleteCalls ELSE MaxConcDeleteCalls)
                 /\ UNCHANGED << pc, result, mutexKV, rel >>
              \/ /\ pc' = [pc EXCEPT ![p] = "done"]
                 /\ result' = [result EXCEPT ![p] = "retry_timeout"]
                 /\ ReturnUnlock(p)
        \/ /\ count[p] + 1 # DeleteRetryCap
           /\ calls' = [calls EXCEPT ![p] = Append(@, c)]
           /\ pc' = [pc EXCEPT ![p] = "d_wait"]
           /\ UNCHANGED << result, mutexKV, rel >>
        \/ /\ count[p] + 1 = DeleteRetryCap
           /\ calls' = [calls EXCEPT ![p] = Append(@, [c EXCEPT !.w = "unwaited"])]
           /\ pc' = [pc EXCEPT ![p] = "done"]
           /\ result' = [result EXCEPT ![p] = "retries"]
           /\ ReturnUnlock(p)
  /\ UNCHANGED << room, inv, g, sub, resId, partialMode, partial, acq, tries >>

\* Delete issuing the Delete call again when the wait on the deletion timed out.
DeleteWait_RetriesOnTimeout(p) ==
  /\ pc[p] = "d_wait"
  /\ \E st \in WaitOutcomes :
        \/ /\ st = "done"
           /\ calls' = Waited(p, st)
           /\ resId' = [resId EXCEPT ![p] = ""]
           /\ result' = [result EXCEPT ![p] = "ok"]
           /\ pc' = [pc EXCEPT ![p] = "done"]
           /\ ReturnUnlock(p)
        \/ /\ st = "error"
           /\ calls' = Waited(p, st)
           /\ result' = [result EXCEPT ![p] = WaitResult(st)]
           /\ pc' = [pc EXCEPT ![p] = "done"]
           /\ ReturnUnlock(p)
           /\ UNCHANGED resId
        \/ /\ st = "running"
           /\ calls' = Waited(p, st)
           /\ pc' = [pc EXCEPT ![p] = IF count[p] < 2 THEN "d_call" ELSE "done"]
           /\ result' = [result EXCEPT ![p] = IF count[p] < 2 THEN @ ELSE WaitResult(st)]
           /\ IF count[p] < 2 THEN UNCHANGED << mutexKV, rel >> ELSE ReturnUnlock(p)
           /\ UNCHANGED resId
  /\ UNCHANGED << room, inv, g, sub, partialMode, partial, acq, count, tries >>

\* The wait on the deletion: only a successful wait clears the ID.
DeleteWait(p) ==
  /\ pc[p] = "d_wait"
  /\ \E st \in WaitOutcomes :
        \/ /\ st = "done"
           /\ calls' = Waited(p, st)
           /\ resId' = [resId EXCEPT ![p] = ""]
           /\ result' = [result EXCEPT ![p] = "ok"]
        \/ /\ st \in {"error", "running"}
           /\ calls' = Waited(p, st)
           /\ result' = [result EXCEPT ![p] = WaitResult(st)]
           /\ UNCHANGED resId
  /\ pc' = [pc EXCEPT ![p] = "done"]
  /\ ReturnUnlock(p)
  /\ UNCHANGED << room, inv, g, sub, partialMode, partial, acq, count, tries >>

\* ---------------------------------------------------------- specification
Next ==
  \E p \in Procs :
    \/ CreateBegin(p) \/ CreateLock(p) \/ CreateDispatch(p) \/ CreateWait(p)
    \/ CreateRemoveDispatch(p) \/ CreateRemoveWait(p)
    \/ ReadBegin(p) \/ ReadGet(p)
    \/ UpdateBegin(p) \/ UpdateCheck(p) \/ UpdateLock(p) \/ UpdateDispatch(p)
    \/ UpdateWait(p) \/ UpdateFinish(p)
    \/ DeleteBegin(p) \/ DeleteLock(p) \/ DeleteCall(p) \/ DeleteWait(p)
    \/ RemoteProgress(p)

Spec == Init /\ [][Next]_vars

\* The steps of an invocation that has started: a handler that was called
\* runs on, every remote call it makes returns and every wait it makes ends.
\* Nothing obliges a new invocation to start.
Step(p) ==
  \/ CreateLock(p) \/ CreateDispatch(p) \/ CreateWait(p)
  \/ CreateRemoveDispatch(p) \/ CreateRemoveWait(p)
  \/ ReadGet(p)
  \/ UpdateCheck(p) \/ UpdateLock(p) \/ UpdateDispatch(p) \/ UpdateWait(p)
  \/ UpdateFinish(p)
  \/ DeleteLock(p) \/ DeleteCall(p) \/ DeleteWait(p)

FairSpec == Spec /\ \A p \in Procs : WF_vars(Step(p))

\* ------------------------------------------------- the HTTPS health check
\* resource_compute_https_health_check.go: one request per handler, no lock.
\* An invocation is a Create, an Update or a Delete of the health check
\* "hc1"; the ID of the resource is its name.
HealthCheckKinds == {"hc_create", "hc_update", "hc_delete"}

HealthCheckInputs == { [ kind |-> k, name |-> "hc1" ] : k \in HealthCheckKinds }

\* A handler is called: Update and Delete are called on a resource that is in
\* the state, Create on one that has no ID yet.
HealthCheckBegin(p) ==
  /\ pc[p] = "idle"
  /\ \A q \in Procs : q < p => q \in Started
  /\ \E d \in HealthCheckInputs :
       /\ inv' = [inv EXCEPT ![p] = d]
       /\ resId' = [resId EXCEPT ![p] = IF d.kind = "hc_create" THEN "" ELSE d.name]
  /\ pc' = [pc EXCEPT ![p] = "hc_request"]
  /\ UNCHANGED << room, g, sub, calls, partialMode, partial, result, acq, rel, count,
                  tries, mutexKV >>

\* The request of p: a Post, a PUT or a Delete on the compute API.
HealthCheckCall(p) == Call(inv[p].kind, "compute", FALSE, p)

\* Update and Delete, from their first line to the wait: getProject or
\* replaceVars fail before a request is made; the request is rejected; or it
\* is accepted, and its response converted to the operation to wait on.
HealthCheckRequest(p) ==
  /\ pc[p] = "hc_request"
  /\ inv[p].kind \in {"hc_update", "hc_delete"}
  /\ LET c == HealthCheckCall(p)
     IN \/ /\ pc' = [pc EXCEPT ![p] = "done"]
           /\ result' = [result EXCEPT ![p] = "local_error"]
           /\ UNCHANGED calls
        \/ /\ calls' = [calls EXCEPT ![p] = Append(@, [c EXCEPT !.st = "none", !.w = "rejected"])]
           /\ pc' = [pc EXCEPT ![p] = "done"]
           /\ result' = [result EXCEPT ![p] = "rejected"]
        \/ /\ calls' = [calls EXCEPT ![p] = Append(@, [c EXCEPT !.w = "unwaited"])]
           /\ pc' = [pc EXCEPT ![p] = "done"]
           /\ result' = [result EXCEPT ![p] = "convert"]
        \/ /\ calls' = [calls EXCEPT ![p] = Append(@, c)]
           /\ pc' = [pc EXCEPT ![p] = "hc_wait"]
           /\ UNCHANGED result
  /\ UNCHANGED << room, inv, g, sub, resId, partialMode, partial, acq, rel, count, tries,
                  mutexKV >>

\* Create storing the ID before it sends the Post.
HealthCheckCreateRequest_IdFirst(p) ==
  /\ pc[p] = "hc_request"
  /\ inv[p].kind = "hc_create"
  /\ LET c == HealthCheckCall(p)
     IN \/ /\ pc' = [pc EXCEPT ![p] = "done"]
           /\ result' = [result EXCEPT ![p] = "local_error"]
           /\ UNCHANGED << calls, resId >>
        \/ /\ calls' = [calls EXCEPT ![p] = Append(@, [c EXCEPT !.st = "none", !.w = "rejected"])]
           /\ resId' = [resId EXCEPT ![p] = inv[p].name]
           /\ pc' = [pc EXCEPT ![p] = "done"]
           /\ result' = [result EXCEPT ![p] = "rejected"]
        \/ /\ calls' = [calls EXCEPT ![p] = Append(@, [c EXCEPT !.w = "unwaited"])]
           /\ resId' = [resId EXCEPT ![p] = inv[p].name]
           /\ pc' = [pc EXCEPT ![p] = "done"]
           /\ result' = [result EXCEPT ![p] = "convert"]
        \/ /\ calls' = [calls EXCEPT ![p] = Append(@, c)]
           /\ resId' = [resId EXCEPT ![p] = inv[p].name]
           /\ pc' = [pc EXCEPT ![p] = "hc_wait"]
           /\ UNCHANGED result
  /\ UNCHANGED << room, inv, g, sub, partialMode, partial, acq, rel, count, tries, mutexKV >>

\* Create, from its first line to the wait. After an accepted Post the ID is
\* built and stored, then the response converted: a failure to build the ID
\* returns without it, a failure to convert returns with it.
HealthCheckCreateRequest(p) ==
  /\ pc[p] = "hc_request"
  /\ inv[p].kind = "hc_create"
  /\ LET c == HealthCheckCall(p)
     IN \/ /\ pc' = [pc EXCEPT ![p] = "done"]
           /\ result' = [result EXCEPT ![p] = "local_error"]
           /\ UNCHANGED << calls, resId >>
        \/ /\ calls' = [calls EXCEPT ![p] = Append(@, [c EXCEPT !.st = "none", !.w = "rejected"])]
           /\ pc' = [pc EXCEPT ![p] = "done"]
           /\ result' = [result EXCEPT ![p] = "rejected"]
           /\ UNCHANGED resId
        \/ /\ calls' = [calls EXCEPT ![p] = Append(@, [c EXCEPT !.w = "unwaited"])]
           /\ pc' = [pc EXCEPT ![p] = "done"]
           /\ result' = [result EXCEPT ![p] = "id_error"]
           /\ UNCHANGED resId
        \/ /\ calls' = [calls EXCEPT ![p] = Append(@, [c EXCEPT !.w = "unwaited"])]
           /\ resId' = [resId EXCEPT ![p] = inv[p].name]
           /\ pc' = [pc EXCEPT ![p] = "done"]
           /\ result' = [result EXCEPT ![p] = "convert"]
        \/ /\ calls' = [calls EXCEPT ![p] = Append(@, c)]
           /\ resId' = [resId EXCEPT ![p] = inv[p].name]
           /\ pc' = [pc EXCEPT ![p] = "hc_wait"]
           /\ UNCHANGED result
  /\ UNCHANGED << room, inv, g, sub, partialMode, partial, acq, rel, count, tries, mutexKV >>

\* computeOperationWaitTime returned. Create and Update go on to the read
\* after a success and Delete returns; on a failure the handler returns the
\* error, Create having cleared the ID.
HealthCheckWait(p) ==
  /\ pc[p] = "hc_wait"
  /\ \E st \in WaitOutcomes :
       /\ calls' = Waited(p, st)
       /\ IF WaitResult(st) = "ok"
          THEN /\ pc' = [pc EXCEPT ![p] = IF inv[p].kind = "hc_delete" THEN "done" ELSE "hc_read"]
               /\ result' = [result EXCEPT ![p] = IF inv[p].kind = "hc_delete" THEN "ok" ELSE @]
               /\ UNCHANGED resId
          ELSE /\ pc' = [pc EXCEPT ![p] = "done"]
               /\ result' = [result EXCEPT ![p] = WaitResult(st)]
               /\ resId' = [resId EXCEPT ![p] = IF inv[p].kind = "hc_create" THEN "" ELSE @]
  /\ UNCHANGED << room, inv, g, sub, partialMode, partial, acq, rel, count, tries, mutexKV >>

\* resourceComputeHttpsHealthCheckRead at the end of Create and Update: one
\* Get, whose error goes through handleNotFoundError.
HealthCheckRead(p) ==
  /\ pc[p] = "hc_read"
  /\ \E outcome \in {"error", "found"} :
       /\ tries' = [tries EXCEPT ![p] = Append(@, outcome)]
       /\ result' = [result EXCEPT ![p] =
                       IF outcome = "error" THEN handleNotFoundError("read_error").err ELSE "ok"]
       /\ resId' = [resId EXCEPT ![p] =
                      IF outcome = "error" /\ handleNotFoundError("read_error").clearsId
                      THEN "" ELSE @]
  /\ pc' = [pc EXCEPT ![p] = "done"]
  /\ UNCHANGED << room, inv, g, sub, calls, partialMode, partial, acq, rel, count, mutexKV >>

HealthCheckNext ==
  \E p \in Procs :
    \/ HealthCheckBegin(p) \/ HealthCheckCreateRequest(p) \/ HealthCheckRequest(p)
    \/ HealthCheckWait(p) \/ HealthCheckRead(p)
    \/ RemoteProgress(p)

HealthCheckSpec == Init /\ [][HealthCheckNext]_vars

\* ================================================================= claims
HoldsLock(p) == p \in Started /\ p \in Holders(LockKey(inv[p].id))

SameCluster(p, q) == p # q /\ p \in Started /\ q \in Started /\ inv[p].id = inv[q].id

AtLock(p) == pc[p] \in {"c_lock", "u_lock", "d_lock"}

\* The remote-call window of an invocation is open: a call was issued and the
\* wait on its operation has not returned.
WindowOpen(p) == \E i \in 1..Len(calls[p]) : calls[p][i].w = "waiting"

StepFailures == {"rejected", "failed", "timeout"}

IsUpdate(p) == inv[p].kind = "update"

\* C1: at any instant at most one of the invocations on a cluster holds the
\* mutex of that cluster's key.
C1_AtMostOneHolder ==
  \A p, q \in Procs : SameCluster(p, q) /\ HoldsLock(p) => ~HoldsLock(q)

\* C1 witness: an invocation holds the mutex while another invocation on the
\* same cluster is blocked in Lock.
C1_Witness ==
  \E p, q \in Procs : SameCluster(p, q) /\ HoldsLock(p) /\ AtLock(q)

\* C2: the remote-call windows of two invocations on the same cluster never
\* overlap.
C2_NoOverlappingWindows ==
  \A p, q \in Procs : SameCluster(p, q) /\ WindowOpen(p) => ~WindowOpen(q)

\* C4: an invocation that has returned holds no mutex.
C4_ReturnedHoldsNoLock ==
  \A p \in Procs : pc[p] = "done" => ~Holds(p)

\* C4 witness: an invocation returned an error after it had acquired the lock.
C4_Witness ==
  \E p \in Procs : pc[p] = "done" /\ acq[p] > 0 /\ result[p] \notin {"none", "ok"}

\* ------------------------------------------------------------------- C3
UpdateRunning(p) == IsUpdate(p) /\ pc[p] \in {"u_check", "u_lock", "u_call", "u_wait"}

C5_OneOperationAtATime ==
  \A p \in Procs : IsUpdate(p) =>
    LET cs == calls[p]
    IN /\ \A i \in 1..(Len(cs) - 1) : cs[i].w # "waiting" /\ cs[i].st \in {"done", "error"}
       /\ Cardinality({ i \in 1..Len(cs) : cs[i].st = "running" }) <= 1
       /\ \A i, j \in 1..Len(cs) : i # j /\ cs[i].acq >= 1 => cs[i].acq # cs[j].acq

\* C5 witness: the second step of an Update has its operation in flight.
C5_Witness ==
  \E p \in Procs : IsUpdate(p) /\ Len(calls[p]) >= 2 /\ pc[p] = "u_wait"
                   /\ calls[p][Len(calls[p])].st = "running"

\* ------------------------------------------------------------------- C6
\* C6: an Update whose step failed (rejected call, operation in error, wait
\* timed out) has returned, and the failed call is the last it issued.
C6_StopsAtFailedStep ==
  \A p \in Procs : IsUpdate(p) =>
    LET cs == calls[p]
    IN /\ \A i \in 1..(Len(cs) - 1) : cs[i].w = "ok"
       /\ Len(cs) > 0 /\ cs[Len(cs)].w \in StepFailures =>
            pc[p] = "done" /\ result[p] = cs[Len(cs)].w

\* C6 witness: an Update returned the failure of its second call while a
\* later block still had a change to apply.
C6_Witness ==
  \E p \in Procs :
    /\ IsUpdate(p) /\ pc[p] = "done" /\ result[p] \in StepFailures
    /\ Len(calls[p]) >= 2
    /\ NextBlock(inv[p], g[p] + 1) <= NumGroups

\* ------------------------------------------------------------------- C7
StepFailed(p) == IsUpdate(p) /\ pc[p] = "done" /\ result[p] \in StepFailures

\* The groups of the calls issued before the last one.
EarlierSteps(p) == { calls[p][i].step : i \in 1..(Len(calls[p]) - 1) }

\* C7 (as stated): when a step of an Update fails, the earlier calls were all
\* applied and the keys recorded with SetPartial are exactly their groups.
C7_RecordIsCommittedSteps ==
  \A p \in Procs : StepFailed(p) =>
    /\ \A i \in 1..(Len(calls[p]) - 1) : calls[p][i].w = "ok" /\ calls[p][i].st = "done"
    /\ partial[p] = EarlierSteps(p)

\* The blocks before block k that were entered and ran to their end; an
\* addons_config block whose value is unset records nothing.
BlocksEnded(d, k) ==
  { UpdateOrder[j] : j \in { i \in 1..(k - 1) :
      /\ GroupWanted(d, UpdateOrder[i])
      /\ ~(UpdateOrder[i] = "addons_config" /\ ~GetOk(d, "addons_config")) } }

\* C7 (amended): when a step of an Update fails, the earlier calls were all
\* applied; the recorded keys are exactly the keys of the blocks that ran to
\* their end before the failing block, whether or not they had to issue a
\* call (min_master_version is recorded when no upgrade was needed); and every
\* earlier call belongs to a recorded key or to the failing block itself,
\* whose key is not recorded (the first request of additional_zones, the
\* node pools updated before the failing one).
C7_RecordIsBlocksEnded ==
  \A p \in Procs : StepFailed(p) =>
    /\ partialMode[p]
    /\ \A i \in 1..(Len(calls[p]) - 1) : calls[p][i].w = "ok" /\ calls[p][i].st = "done"
    /\ partial[p] = BlocksEnded(inv[p], g[p])
    /\ UpdateOrder[g[p]] \notin partial[p]
    /\ EarlierSteps(p) \subseteq partial[p] \cup {UpdateOrder[g[p]]}

\* C7 witness: the second request of a block failed after its first request
\* was applied, and an earlier block is recorded.
C7_Witness ==
  \E p \in Procs :
    /\ StepFailed(p) /\ Len(calls[p]) >= 2 /\ partial[p] # {}
    /\ calls[p][Len(calls[p]) - 1].step = calls[p][Len(calls[p])].step

\* ------------------------------------------------------------------- C8
MasterGroups == {"master_authorized_networks_config", "min_master_version"}

WorkerGroups == {"node_version", "node_pool"}

\* Positions in calls[p] of the calls of the groups in S.
CallsOf(p, S) == { i \in 1..Len(calls[p]) : calls[p][i].step \in S }

\* C8: in an Update every call of a master-level group precedes every call of
\* a worker-level group and succeeded before it, and a worker-level call is
\* issued only once every master-level change that needs a step has its call.
C8_MasterBeforeWorkers ==
  \A p \in Procs : IsUpdate(p) =>
    /\ \A i \in CallsOf(p, MasterGroups), j \in CallsOf(p, WorkerGroups) :
         i < j /\ calls[p][i].w = "ok" /\ calls[p][i].st = "done"
    /\ CallsOf(p, WorkerGroups) # {} =>
         \A m \in MasterGroups :
           HasChange(inv[p], m) /\ (m = "min_master_version" => LessThan(inv[p].master_version, inv[p].new[m]))
             => CallsOf(p, {m}) # {}

\* C8 witness: a worker-level call issued after a master-level call.
C8_Witness ==
  \E p \in Procs : IsUpdate(p) /\ CallsOf(p, MasterGroups) # {} /\ CallsOf(p, WorkerGroups) # {}

\* ------------------------------------------------------------------- C9
VersionGroups == {"min_master_version", "node_version"}

ToggleGroups ==
  { "addons_config", "maintenance_policy", "additional_zones", "enable_legacy_abac",
    "monitoring_service", "network_policy", "logging_service", "pod_security_policy_config" }

\* C9: in an Update every call of a version group precedes every call of a
\* configuration toggle, and a toggle's call is issued only once every version
\* change that needs a step has its call.
C9_VersionsBeforeToggles ==
  \A p \in Procs : IsUpdate(p) =>
    /\ \A i \in CallsOf(p, VersionGroups), j \in CallsOf(p, ToggleGroups) : i < j
    /\ CallsOf(p, ToggleGroups) # {} =>
         \A v \in VersionGroups :
           HasChange(inv[p], v) /\ (v = "min_master_version" => LessThan(inv[p].master_version, inv[p].new[v]))
             => CallsOf(p, {v}) # {}

\* C9 witness: a toggle's call issued after the calls of both version groups.
C9_Witness ==
  \E p \in Procs :
    /\ IsUpdate(p) /\ CallsOf(p, ToggleGroups) # {}
    /\ CallsOf(p, {"min_master_version"}) # {} /\ CallsOf(p, {"node_version"}) # {}

\* ------------------------------------------------------------------ C10
\* The precedence of the field groups that C10 speaks of.
Precedence ==
  << "master_authorized_networks_config", "min_master_version", "node_version",
     "addons_config", "maintenance_policy", "additional_zones",
     "enable_legacy_abac", "monitoring_service", "network_policy", "node_pool",
     "logging_service", "pod_security_policy_config", "remove_default_node_pool" >>

Rank(grp) == CHOOSE k \in 1..Len(Precedence) : Precedence[k] = grp

InPrecedenceOrder(p) ==
  \A i, j \in 1..Len(calls[p]) : i < j => Rank(calls[p][i].step) <= Rank(calls[p][j].step)

ThreeGroups == {"min_master_version", "node_version", "addons_config"}

ThreeChanged(p) == IsUpdate(p) /\ \A f \in ThreeGroups : HasChange(inv[p], f)

\* The three groups have their calls, all applied.
ThreeApplied(p) ==
  \A f \in ThreeGroups : \E i \in CallsOf(p, {f}) : calls[p][i].w = "ok"

\* Errors that come from the remote side or from a conversion, not from the
\* values of the changed fields.
EnvFailures == StepFailures \cup {"convert", "read_error", "read_timeout"}

\* C10 (as stated): the calls of an Update follow one fixed order of the
\* groups; and an Update that changes master version (to a version that is
\* set), node version and addons, and meets no failure of the remote side,
\* applies the three steps and returns no error.
C10_FixedOrderAllApplied ==
  \A p \in Procs : IsUpdate(p) =>
    /\ InPrecedenceOrder(p)
    /\ ThreeChanged(p) /\ GetOk(inv[p], "min_master_version")
         /\ pc[p] = "done" /\ result[p] \notin EnvFailures
         => result[p] = "ok" /\ ThreeApplied(p)

\* C10 (amended): the calls of an Update follow one fixed order of the groups;
\* and an Update that changes master version, node version and addons and
\* returns no error has applied the node version step, the master version
\* step when the new version is an upgrade of the master's, and the addons
\* step when addons_config is still set. It returns an error with every
\* operation successful when a version does not parse, a request cannot be
\* converted, a call is rejected or the final read fails.
C10_FixedOrderAppliedOnSuccess ==
  \A p \in Procs : IsUpdate(p) =>
    /\ InPrecedenceOrder(p)
    /\ ThreeChanged(p) /\ pc[p] = "done" /\ result[p] = "ok" =>
         /\ \A i \in 1..Len(calls[p]) : calls[p][i].w = "ok"
         /\ \A f \in ThreeGroups :
              (CallsOf(p, {f}) # {})
                <=> CASE f = "min_master_version" -> LessThan(inv[p].master_version, inv[p].new[f])
                      [] f = "addons_config" -> GetOk(inv[p], f)
                      [] OTHER -> TRUE

\* C10 witness: an Update applied the three steps, master version, node
\* version, addons, and returned no error.
C10_Witness ==
  \E p \in Procs :
    /\ ThreeChanged(p) /\ pc[p] = "done" /\ result[p] = "ok"
    /\ Len(calls[p]) = 3
    /\ calls[p][1].step = "min_master_version"
    /\ calls[p][2].step = "node_version"
    /\ calls[p][3].step = "addons_config"

\* ------------------------------------------------------------------ C11
\* Positions in calls[p] of the calls of the node_pool loop.
PoolCalls(p) == CallsOf(p, {"node_pool"})

\* The steps on sub-resources of the cluster.
SubResourceSteps == {"node_pool", "remove_default_node_pool"}

\* C11 (as stated): once an Update has issued a node-pool call, it issues no
\* call for a field of the parent cluster.
C11_PoolsAfterAllParentSteps ==
  \A p \in Procs : IsUpdate(p) =>
    \A i \in PoolCalls(p), j \in 1..Len(calls[p]) :
      i < j => calls[p][j].step \in SubResourceSteps

ParentGroupsBeforePools ==
  { "master_authorized_networks_config", "min_master_version", "node_version",
    "addons_config", "maintenance_policy", "additional_zones", "enable_legacy_abac",
    "monitoring_service", "network_policy" }

GroupsAfterPools ==
  { "logging_service", "pod_security_policy_config", "remove_default_node_pool" }

\* C11 (amended): the node-pool calls of an Update come after every call of
\* the nine groups from master_authorized_networks_config to network_policy,
\* which all succeeded, and before every call of logging_service,
\* pod_security_policy_config and the removal of the default node pool, which
\* are issued only once the node-pool calls succeeded.
C11_PoolsBetweenParentSteps ==
  \A p \in Procs : IsUpdate(p) =>
    /\ \A i \in CallsOf(p, ParentGroupsBeforePools), j \in PoolCalls(p) :
         i < j /\ calls[p][i].w = "ok"
    /\ \A i \in PoolCalls(p), j \in CallsOf(p, GroupsAfterPools) :
         i < j /\ calls[p][i].w = "ok"

\* C11 witness: a logging_service call issued after a node-pool call, itself
\* issued after the call of an earlier parent group.
C11_Witness ==
  \E p \in Procs :
    /\ IsUpdate(p)
    /\ \E i \in CallsOf(p, ParentGroupsBeforePools), j \in PoolCalls(p),
          k \in CallsOf(p, {"logging_service"}) : i < j /\ j < k

\* ------------------------------------------------------------------ C12
\* C12: the node-pool calls of an Update are issued in the order of the pool
\* indices, one call per pool whose configuration changed; the call of a pool
\* is issued only after the call of every earlier changed pool succeeded, and
\* the loop ends with every changed pool updated.
C12_PoolsInIndexOrder ==
  \A p \in Procs : IsUpdate(p) =>
    LET d == inv[p]
        cs == calls[p]
    IN /\ \A j \in PoolCalls(p) : cs[j].sub \in 1..Len(d.pools) /\ d.pools[cs[j].sub]
       /\ \A i, j \in PoolCalls(p) :
            i < j => cs[i].sub < cs[j].sub /\ cs[i].w = "ok" /\ cs[i].st = "done"
       /\ \A j \in PoolCalls(p) : \A k \in 1..(cs[j].sub - 1) :
            d.pools[k] => \E i \in PoolCalls(p) : i < j /\ cs[i].sub = k
       /\ "node_pool" \in partial[p] =>
            \A k \in 1..Len(d.pools) :
              d.pools[k] => \E i \in PoolCalls(p) : cs[i].sub = k /\ cs[i].w = "ok"

\* C12 witness: the update of the second node pool is in flight after the
\* update of the first one succeeded.
C12_Witness ==
  \E p \in Procs :
    /\ IsUpdate(p) /\ pc[p] = "u_wait"
    /\ \E i, j \in PoolCalls(p) :
         /\ calls[p][i].sub = 1 /\ calls[p][i].w = "ok"
         /\ calls[p][j].sub = 2 /\ calls[p][j].w = "waiting"

\* ------------------------------------------------------------------ C13
\* C13 (as stated): an Update issues at most one call for each field group of
\* the cluster.
C13_OneCallPerGroup ==
  \A p \in Procs : IsUpdate(p) =>
    \A f \in Fields : Cardinality(CallsOf(p, {f})) <= 1

\* The cluster's own zone, which every locations request of a zonal cluster
\* carries.
OwnZone(d) == IF isZone(d.id.location) THEN {d.id.location} ELSE {}

\* C13 (amended): an Update issues at most one call for each field group other
\* than additional_zones. For additional_zones it issues a request with the
\* old and the new zones together and, when a zone is to be removed, after
\* that request succeeded a second one with the new zones only.
C13_OneCallPerGroupButZones ==
  \A p \in Procs : IsUpdate(p) =>
    LET d == inv[p]
        cs == calls[p]
        az == CallsOf(p, {"additional_zones"})
        old == d.old["additional_zones"]
        new == d.new["additional_zones"]
    IN /\ \A i, j \in 1..Len(cs) :
            (i < j /\ cs[i].step = cs[j].step)
              => cs[i].step \in {"additional_zones", "node_pool"}
       /\ Cardinality(az) <= 2
       /\ \A i \in az :
            /\ cs[i].sub = 1 => cs[i].req = (old \cup new) \cup OwnZone(d)
            /\ cs[i].sub = 2 =>
                 /\ cs[i].req = new \cup OwnZone(d)
                 /\ old \ new # {}
                 /\ i - 1 \in az /\ cs[i - 1].sub = 1 /\ cs[i - 1].w = "ok"
       /\ \A i, j \in az : i < j => cs[i].sub = 1 /\ cs[j].sub = 2
       /\ "additional_zones" \in partial[p] =>
            Cardinality(az) = (IF old \ new # {} THEN 2 ELSE 1)

\* C13 witness: both requests of additional_zones were applied.
C13_Witness ==
  \E p \in Procs :
    /\ IsUpdate(p) /\ "additional_zones" \in partial[p]
    /\ Cardinality(CallsOf(p, {"additional_zones"})) = 2

\* ------------------------------------------------------------------ C14
\* Nothing differs between the configuration and the state of the cluster.
NothingChanged(d) ==
  /\ \A f \in Fields : d.old[f] = d.new[f]
  /\ \A k \in 1..Len(d.pools) : ~d.pools[k]

\* C14: every call of an Update is for a field group whose value differs
\* between configuration and state (or for a node pool that differs); an
\* Update with nothing changed issues no call and never takes the lock.
C14_StepsOnlyForChanges ==
  \A p \in Procs : IsUpdate(p) =>
    LET d == inv[p]
        cs == calls[p]
    IN /\ \A i \in 1..Len(cs) :
            IF cs[i].step = "node_pool"
            THEN cs[i].sub \in 1..Len(d.pools) /\ d.pools[cs[i].sub]
            ELSE cs[i].step \in Fields /\ d.old[cs[i].step] # d.new[cs[i].step]
       /\ NothingChanged(d) =>
            /\ cs = << >>
            /\ acq[p] = 0
            /\ pc[p] \in {"u_check", "read", "done"}

\* C14 witness: an Update with node pools declared and nothing changed
\* returned without a call and without the lock.
C14_Witness ==
  \E p \in Procs :
    /\ IsUpdate(p) /\ NothingChanged(inv[p]) /\ Len(inv[p].pools) > 0
    /\ pc[p] = "done" /\ result[p] = "ok" /\ calls[p] = << >> /\ acq[p] = 0

\* ------------------------------------------------------------------ C15
Succeeded(p) == IsUpdate(p) /\ pc[p] = "done" /\ result[p] = "ok"

AppliedCalls(p, f) == { i \in CallsOf(p, {f}) : calls[p][i].w = "ok" }

\* C15 (as stated): when an Update returns success, each field group whose
\* value differs has exactly one call, and that call succeeded.
C15_OneStepPerChange ==
  \A p \in Procs : Succeeded(p) =>
    \A f \in Fields :
      inv[p].old[f] # inv[p].new[f] =>
        Cardinality(CallsOf(p, {f})) = 1 /\ AppliedCalls(p, f) = CallsOf(p, {f})

\* The calls a successful Update has made for a changed field group.
CallsDue(d, f) ==
  CASE f = "min_master_version" -> IF d.master_version < d.new[f] THEN 1 ELSE 0
    [] f = "addons_config" -> IF d.new[f] # 0 THEN 1 ELSE 0
    [] f = "remove_default_node_pool" -> IF d.new[f] = 1 THEN 1 ELSE 0
    [] f = "additional_zones" -> IF d.old[f] \ d.new[f] # {} THEN 2 ELSE 1
    [] OTHER -> 1

\* C15 (amended): when an Update returns success, each field group whose value
\* differs has had its calls issued and applied: one call, except none for
\* min_master_version when the master already runs that version or a later
\* one, none for addons_config when it is unset, none for
\* remove_default_node_pool when it is set to false, and two for
\* additional_zones when a zone is removed.
C15_StepsPerChange ==
  \A p \in Procs : Succeeded(p) =>
    \A f \in Fields :
      inv[p].old[f] # inv[p].new[f] =>
        /\ Cardinality(CallsOf(p, {f})) = CallsDue(inv[p], f)
        /\ AppliedCalls(p, f) = CallsOf(p, {f})

\* C15 witness: an Update returned success having applied a change and having
\* issued no call for a changed min_master_version.
C15_Witness ==
  \E p \in Procs :
    /\ Succeeded(p) /\ Len(calls[p]) >= 1
    /\ inv[p].old["min_master_version"] # inv[p].new["min_master_version"]
    /\ CallsOf(p, {"min_master_version"}) = {}

\* ------------------------------------------------------------------ C16
\* C16: an Update that returns a validation error has made no remote call.
C16_ValidationBeforeAnyCall ==
  \A p \in Procs :
    IsUpdate(p) /\ pc[p] = "done" /\ result[p] = "validation" => calls[p] = << >>

\* ------------------------------------------------------------------ C17
IsCreate(p) == inv[p].kind = "create"

\* A cross-field precondition of Create is violated: node_version is set and
\* is not min_master_version up to the -gke.X suffix, additional_zones holds
\* the cluster's own location, or private_cluster is set without
\* master_ipv4_cidr_block or without ip_allocation_policy.
PreconditionViolated(d) ==
  \/ d.new["node_version"] # 0
       /\ d.new["node_version"] % 10 # d.new["min_master_version"] % 10
  \/ d.id.location \in d.new["additional_zones"]
  \/ d.new["private_cluster"] = 1
       /\ (d.new["master_ipv4_cidr_block"] = 0 \/ d.new["ip_allocation_policy"] = 0)

\* C17: a Create with a violated precondition returns a validation error,
\* having made no remote call, never taken the lock and never set the ID; and
\* a Create returns a validation error only for a violated precondition.
C17_CreateFailsFast ==
  \A p \in Procs : IsCreate(p) =>
    /\ PreconditionViolated(inv[p]) =>
         /\ pc[p] = "done" /\ result[p] = "validation"
         /\ calls[p] = << >> /\ acq[p] = 0 /\ resId[p] = ""
         /\ p \notin Holders(LockKey(inv[p].id))
    /\ result[p] = "validation" => PreconditionViolated(inv[p])

\* C17 witness: a Create of a private cluster without ip_allocation_policy
\* returned its validation error.
C17_Witness ==
  \E p \in Procs :
    /\ IsCreate(p) /\ pc[p] = "done" /\ result[p] = "validation"
    /\ inv[p].new["private_cluster"] = 1 /\ inv[p].new["ip_allocation_policy"] = 0

\* ------------------------------------------------------------------ C18
\* The creation operation of p ended in error, or the wait on it timed out.
CreationFailed(p) ==
  /\ IsCreate(p) /\ pc[p] = "done" /\ result[p] \in {"failed", "timeout"}
  /\ Len(calls[p]) = 1 /\ calls[p][1].step = "create"

\* C18: a Create whose creation failed or timed out has returned with an
\* empty ID and without the lock, which it released once; unless another
\* invocation holds it, the mutex of the identity is free for the next Create.
C18_FailedCreateLeavesIdentityFree ==
  \A p \in Procs : CreationFailed(p) =>
    /\ resId[p] = ""
    /\ acq[p] = 1 /\ rel[p] = 1
    /\ p \notin Holders(LockKey(inv[p].id))
    /\ partial[p] = {}
    /\ (\A q \in Procs \ {p} : ~HoldsLock(q)) => CanLock(LockKey(inv[p].id))

\* C18 witness: after a Create of a cluster failed, another Create of the same
\* cluster holds the lock with its create call issued.
C18_Witness ==
  \E p, q \in Procs :
    /\ CreationFailed(p) /\ IsCreate(q) /\ SameCluster(p, q)
    /\ HoldsLock(q) /\ Len(calls[q]) = 1 /\ calls[q][1].w = "waiting"

\* ------------------------------------------------------------------ C19
\* C19: in a Create the removal of the default node pool is issued only when
\* remove_default_node_pool is requested, as the call right after a creation
\* that ended successfully, under the one acquisition of the lock that the
\* creation was issued under; until the removal has been awaited the
\* invocation holds that lock and has released nothing.
C19_RemovalUnderCreationLock ==
  \A p \in Procs : IsCreate(p) =>
    \A i \in 1..Len(calls[p]) :
      calls[p][i].step = "remove_default_node_pool" =>
        /\ inv[p].new["remove_default_node_pool"] = 1
        /\ i = 2
        /\ calls[p][1].step = "create"
        /\ calls[p][1].st = "done" /\ calls[p][1].w = "ok"
        /\ calls[p][1].acq = 1 /\ calls[p][i].acq = 1
        /\ acq[p] = 1
        /\ calls[p][i].w = "waiting" => (HoldsLock(p) /\ rel[p] = 0)

\* C19 witness: a Create has issued the removal of the default node pool and
\* waits on it holding the lock.
C19_Witness ==
  \E p \in Procs :
    /\ IsCreate(p) /\ pc[p] = "c_rm_wait" /\ HoldsLock(p)
    /\ Len(calls[p]) = 2
    /\ calls[p][2].step = "remove_default_node_pool"
    /\ calls[p][2].w = "waiting"

\* ------------------------------------------------------------------ C20
\* This step makes p issue a sub-resource call.
IssuesSubResourceStep(p) ==
  /\ Len(calls'[p]) = Len(calls[p]) + 1
  /\ calls'[p][Len(calls'[p])].step \in SubResourceSteps

\* No invocation on the cluster of p awaits an operation, and the parent
\* operations that p issued before have ended without error.
ParentStable(p) ==
  /\ \A q \in Procs : SameCluster(p, q) =>
       \A j \in 1..Len(calls[q]) : calls[q][j].w # "waiting"
  /\ \A j \in 1..Len(calls[p]) :
       calls[p][j].step \notin SubResourceSteps => calls[p][j].w = "ok"

\* C20: a node-pool update or a removal of the default node pool is issued
\* only when no operation on the cluster is in flight and the earlier parent
\* operations of the invocation ended without error.
C20_SubResourceOnlyWhenStable ==
  [][\A p \in Procs : IssuesSubResourceStep(p) => ParentStable(p)]_vars

\* ------------------------------------------------------------------ C21
IsDelete(p) == inv[p].kind = "delete"

\* The first n Delete calls of p were rejected and the next one was accepted.
AcceptedAfter(p, n) ==
  /\ Len(calls[p]) = n + 1
  /\ \A i \in 1..n : calls[p][i].w = "rejected"
  /\ calls[p][n + 1].w # "rejected"

\* C21: a Delete whose call was rejected n times, n below the attempt cap, and
\* then accepted, and whose deletion operation succeeded without the wait
\* reporting a failure or a timeout, has returned without error and with the
\* ID cleared.
C21_DeleteSucceedsAfterRetries ==
  \A p \in Procs : \A n \in 0..(DeleteRetryCap - 1) :
    ( /\ IsDelete(p) /\ pc[p] = "done"
      /\ AcceptedAfter(p, n)
      /\ calls[p][n + 1].st = "done"
      /\ calls[p][n + 1].w \notin {"failed", "timeout"} )
    => (result[p] = "ok" /\ resId[p] = "")

\* ------------------------------------------------------------------ C22
\* C22: a Delete never makes more Delete calls than the attempt cap, and one
\* that has returned after the remote rejected as many calls as the cap has
\* given up with the retries-exhausted outcome.
C22_DeleteRetryBounded ==
  \A p \in Procs : IsDelete(p) =>
    /\ Len(calls[p]) <= DeleteRetryCap
    /\ ( /\ pc[p] = "done"
         /\ Len(calls[p]) >= DeleteRetryCap
         /\ \A i \in 1..DeleteRetryCap : calls[p][i].w = "rejected" )
       => result[p] = "retries"

\* ------------------------------------------------------------------ C23
\* C23: a Delete that has returned has waited on the operation of every
\* Delete call the remote accepted.
C23_AcceptedDeleteIsAwaited ==
  \A p \in Procs : (IsDelete(p) /\ pc[p] = "done") =>
    \A i \in 1..Len(calls[p]) :
      calls[p][i].w # "rejected" => calls[p][i].w \in {"ok", "failed", "timeout"}

\* ------------------------------------------------------------------ C24
\* C24: a Delete whose call the remote rejects with an error that is not
\* worth a retry makes exactly one Delete call.
C24_FatalDeleteErrorNotRetried ==
  \A p \in Procs :
    ( /\ IsDelete(p) /\ Len(calls[p]) >= 1
      /\ calls[p][1].w = "rejected" /\ inv[p].err = "not_found" )
    => Len(calls[p]) = 1

\* ------------------------------------------------------------------ C25
WaitFailures == {"failed", "timeout"}

\* C25: a call whose wait ended with a failure or a timeout is the last
\* remote call of its invocation, which has returned that error: nothing is
\* issued to cancel or to compensate the operation.
C25_NoCallAfterFailedWait ==
  \A p \in Procs : \A i \in 1..Len(calls[p]) :
    calls[p][i].w \in WaitFailures =>
      /\ i = Len(calls[p])
      /\ pc[p] = "done"
      /\ result[p] = calls[p][i].w

\* C25 witness: an operation whose wait timed out has completed remotely
\* after its invocation returned the timeout.
C25_Witness ==
  \E p \in Procs :
    /\ pc[p] = "done" /\ result[p] = "timeout" /\ Len(calls[p]) >= 1
    /\ calls[p][Len(calls[p])].w = "timeout"
    /\ calls[p][Len(calls[p])].st = "done"

\* ------------------------------------------------------------------ C26
OtherCluster(p, q) == p # q /\ p \in Started /\ q \in Started /\ inv[p].id # inv[q].id

\* C26: distinct identities have distinct lock keys, and an invocation that
\* is about to lock is held up only by a holder working on its own identity.
C26_DistinctIdentitiesIndependent ==
  /\ \A a, b \in Identities : a # b => LockKey(a) # LockKey(b)
  /\ \A p \in Procs :
       (AtLock(p) /\ ~CanLock(LockKey(inv[p].id)))
         => \E q \in Procs : SameCluster(p, q) /\ HoldsLock(q)

\* C26 witness: two invocations on distinct identities hold their locks at
\* the same time, each with an operation in flight.
C26_Witness ==
  \E p, q \in Procs :
    /\ OtherCluster(p, q)
    /\ HoldsLock(p) /\ HoldsLock(q)
    /\ WindowOpen(p) /\ WindowOpen(q)

\* ------------------------------------------------------------------ C27
\* C27: an invocation that is about to lock the key of its cluster does not
\* hold it, having released every acquisition it made before; no invocation
\* ever has more than one acquisition outstanding.
C27_NoSelfReacquire ==
  \A p \in Procs :
    /\ acq[p] - rel[p] \in {0, 1}
    /\ AtLock(p) => (~HoldsLock(p) /\ acq[p] = rel[p])

\* C27 witness: an Update that locked and unlocked for an earlier step is
\* about to lock for its next step.
C27_Witness ==
  \E p \in Procs :
    /\ IsUpdate(p) /\ pc[p] = "u_lock"
    /\ acq[p] >= 1 /\ Len(calls[p]) >= 1

\* ------------------------------------------------------------------ C28
IsRead(p) == inv[p].kind = "read"

\* C28: a Read never locks and is never waiting for the lock, and an Update
\* doing its final read holds no lock, every acquisition being released.
C28_ReadIsLockFree ==
  \A p \in Procs :
    /\ IsRead(p) => (acq[p] = 0 /\ ~Holds(p) /\ ~AtLock(p))
    /\ (IsUpdate(p) /\ pc[p] = "read") => (~Holds(p) /\ acq[p] = rel[p])

\* C28 witness: a Read of a cluster has completed while another invocation
\* holds the lock of that cluster with an operation in flight.
C28_Witness ==
  \E p, q \in Procs :
    /\ SameCluster(p, q)
    /\ IsRead(p) /\ pc[p] = "done" /\ result[p] = "ok"
    /\ HoldsLock(q) /\ WindowOpen(q)

\* ------------------------------------------------------------------ C29
\* A Delete of the cluster of p has completed successfully.
ClusterDeleted(p) ==
  \E q \in Procs :
    SameCluster(p, q) /\ IsDelete(q) /\ pc[q] = "done" /\ result[q] = "ok"

\* C29: once a Delete of a cluster has completed successfully, no Update of
\* that cluster issues a remote call.
C29_NoUpdateStepAfterDelete ==
  [][\A p \in Procs :
       (IsUpdate(p) /\ Len(calls'[p]) > Len(calls[p])) => ~ClusterDeleted(p)]_vars

\* ------------------------------------------------------------------ C30
\* The client selected for the invocation of p.
Selected(p) == getContainerApiVersion(inv[p])

Mutating(p) == inv[p].kind \in {"create", "update", "delete"}

\* C30 (as stated): every mutating call of an invocation goes to the client
\* selected from the requested versioned features.
C30_AllCallsToSelectedClient ==
  \A p \in Procs : Mutating(p) =>
    \A i \in 1..Len(calls[p]) : calls[p][i].client = Selected(p)

\* The calls that switch on the selected version: those of Create and those
\* of Update's own blocks other than pod_security_policy_config.
SwitchesOnVersion(p, c) ==
  \/ IsCreate(p)
  \/ IsUpdate(p) /\ c.step \notin {"pod_security_policy_config", "node_pool"}

AlwaysBeta(p, c) ==
  \/ IsDelete(p)
  \/ IsUpdate(p) /\ c.step = "pod_security_policy_config"

\* C30 (amended): the calls of Create and of Update's blocks other than
\* pod_security_policy_config go to the selected client; the
\* pod_security_policy_config call and the Delete call go to v1beta1.
C30_SelectedClientButPspAndDelete ==
  \A p \in Procs : (Mutating(p) /\ calls[p] # << >>) =>
    LET selected == Selected(p)
    IN \A i \in 1..Len(calls[p]) :
         /\ SwitchesOnVersion(p, calls[p][i]) => calls[p][i].client = selected
         /\ AlwaysBeta(p, calls[p][i]) => calls[p][i].client = "v1beta1"

\* C30 witness: an Update for which v1 is selected has issued its
\* pod_security_policy_config call, after a call of another block.
C30_Witness ==
  \E p \in Procs :
    /\ IsUpdate(p) /\ Selected(p) = "v1" /\ Len(calls[p]) >= 2
    /\ calls[p][Len(calls[p])].step = "pod_security_policy_config"
    /\ calls[p][1].client = "v1"

\* ------------------------------------------------------------------ C31
MasterBlock == CHOOSE k \in 1..NumGroups : UpdateOrder[k] = "min_master_version"

\* min_master_version changed and both versions parse.
MasterChange(p) ==
  /\ IsUpdate(p) /\ HasChange(inv[p], "min_master_version")
  /\ ~NewVersionFails(inv[p].new["min_master_version"])
  /\ ~NewVersionFails(inv[p].master_version)

NoUpgradeNeeded(p) == inv[p].master_version >= inv[p].new["min_master_version"]

\* C31: an Update whose min_master_version changed issues a master-version
\* call only when the master runs a version strictly lower than the desired
\* one; otherwise it issues none, and once it is past the block the key
\* min_master_version is recorded.
C31_MasterStepOnlyForUpgrade ==
  \A p \in Procs : MasterChange(p) =>
    /\ CallsOf(p, {"min_master_version"}) # {} => ~NoUpgradeNeeded(p)
    /\ (NoUpgradeNeeded(p) /\ g[p] > MasterBlock) => "min_master_version" \in partial[p]

\* C31 witness: an Update whose master needed no upgrade has gone on past the
\* min_master_version block and issued the call of a later group.
C31_Witness ==
  \E p \in Procs :
    /\ MasterChange(p) /\ NoUpgradeNeeded(p)
    /\ Len(calls[p]) >= 1 /\ calls[p][1].step # "min_master_version"
    /\ g[p] > MasterBlock
    /\ "min_master_version" \in partial[p]

\* ------------------------------------------------------------------ C32
\* A request for the locations req, sent when the locations before are in
\* effect, both adds and removes zones.
AddsAndRemoves(req, before) == req \ before # {} /\ before \ req # {}

\* C32: no locations request of an Update both adds and removes zones: the
\* first request carries the old and the new zones (and the cluster's own
\* zone), the second one, sent only after the first was applied and only when
\* it differs from the first, carries the new zones; additional_zones is
\* recorded only once the last request was applied.
C32_ZonesAddedThenRemoved ==
  \A p \in Procs : (IsUpdate(p) /\ calls[p] # << >>) =>
    LET d == inv[p]
        cs == calls[p]
        inEffect == d.old["additional_zones"] \cup OwnZone(d)
        wanted == d.new["additional_zones"] \cup OwnZone(d)
        both == inEffect \cup wanted
        az == CallsOf(p, {"additional_zones"})
    IN /\ \A i \in az :
            /\ cs[i].sub = 1 => (cs[i].req = both /\ ~AddsAndRemoves(cs[i].req, inEffect))
            /\ cs[i].sub = 2 =>
                 /\ cs[i].req = wanted /\ ~AddsAndRemoves(cs[i].req, both)
                 /\ both # wanted
                 /\ i > 1 /\ cs[i - 1].step = "additional_zones"
                 /\ cs[i - 1].sub = 1 /\ cs[i - 1].w = "ok"
       /\ "additional_zones" \in partial[p] =>
            /\ az # {}
            /\ \A i \in az : cs[i].w = "ok"
            /\ both # wanted => \E i \in az : cs[i].sub = 2

\* C32 witness: an Update that replaces a zone by another has had both its
\* locations requests applied and has recorded additional_zones.
C32_Witness ==
  \E p \in Procs :
    /\ IsUpdate(p) /\ "additional_zones" \in partial[p]
    /\ inv[p].old["additional_zones"] \ inv[p].new["additional_zones"] # {}
    /\ inv[p].new["additional_zones"] \ inv[p].old["additional_zones"] # {}
    /\ Len(calls[p]) >= 2
    /\ calls[p][1].sub = 1 /\ calls[p][2].sub = 2
    /\ calls[p][2].step = "additional_zones" /\ calls[p][2].w = "ok"

\* ------------------------------------------------------------------ C33
\* The create call of p was issued and the service accepted it.
CreateAccepted(p) ==
  /\ calls[p] # << >>
  /\ calls[p][1].step = "create" /\ calls[p][1].st # "none"

\* The create call of p was rejected, or the wait on the creation failed.
CreateCallFailed(p) ==
  /\ calls[p] # << >>
  /\ calls[p][1].step = "create" /\ calls[p][1].w \in StepFailures

\* C33 as stated: the ID of a Create is set only after the create call was
\* accepted, a Create that has returned has an empty ID exactly when its
\* create call was rejected or the wait on the creation failed, and a failure
\* after a successful creation returns an error with the ID set.
C33_IdEmptyIffCreateCallFailed ==
  \A p \in Procs : IsCreate(p) =>
    /\ resId[p] # "" => CreateAccepted(p)
    /\ pc[p] = "done" => (resId[p] = "" <=> CreateCallFailed(p))

\* C33 amended: the ID of a Create is set, to the name of the cluster, only
\* after the create call was accepted; a Create that has returned has an
\* empty ID exactly when it returned before issuing the create call (a
\* violated precondition, a request that could not be converted), when the
\* call was rejected, or when the wait on the creation failed; when the
\* creation succeeded and the removal of the default node pool or the final
\* read failed, the Create has returned that error with the ID set.
C33_IdEmptyIffNoClusterCreated ==
  \A p \in Procs : IsCreate(p) =>
    LET cs == calls[p]
    IN /\ resId[p] # "" => (CreateAccepted(p) /\ resId[p] = inv[p].id.name)
       /\ pc[p] = "done" =>
            /\ resId[p] = "" <=> (cs = << >> \/ CreateCallFailed(p))
            /\ cs = << >> <=> result[p] \in {"validation", "convert"}
            /\ (cs # << >> /\ cs[1].w = "ok") =>
                 /\ resId[p] = inv[p].id.name
                 /\ (Len(cs) = 2 /\ cs[2].w \in StepFailures) => result[p] = cs[2].w
                 /\ (Len(cs) = 2 /\ cs[2].w = "ok") =>
                      result[p] \in {"ok", "read_error", "read_timeout"}
                 /\ Len(cs) = 1 => result[p] \in {"ok", "read_error", "read_timeout"}

\* C33 witness: a Create has returned the error of the removal of the default
\* node pool, after a successful creation, with the ID set.
C33_Witness ==
  \E p \in Procs :
    /\ IsCreate(p) /\ pc[p] = "done" /\ Len(calls[p]) = 2
    /\ calls[p][1].w = "ok" /\ calls[p][2].w \in WaitFailures
    /\ result[p] = calls[p][2].w /\ resId[p] = inv[p].id.name

\* ------------------------------------------------------------------ C34
\* The last Delete call of p was accepted and the wait on its operation
\* returned success.
DeletionAwaited(p) ==
  /\ calls[p] # << >>
  /\ calls[p][Len(calls[p])].st # "none"
  /\ calls[p][Len(calls[p])].w = "ok"

\* The error returns of Delete: the retries given up (the budget elapsed, or
\* the 15th attempt), the deletion failed, the wait timed out.
DeleteErrorReturns == {"retry_timeout", "retries", "failed", "timeout"}

\* C34: the ID of a Delete is empty if and only if its Delete call was
\* accepted and the wait on the deletion returned success, which is when
\* Delete returns success; every error return of Delete leaves the ID as it
\* was, the name of the cluster.
C34_DeleteClearsIdOnlyOnSuccess ==
  \A p \in Procs : IsDelete(p) =>
    /\ resId[p] = "" <=> (pc[p] = "done" /\ result[p] = "ok")
    /\ resId[p] = "" <=> DeletionAwaited(p)
    /\ resId[p] # "" => resId[p] = inv[p].id.name
    /\ pc[p] = "done" => result[p] \in DeleteErrorReturns \cup {"ok"}

\* C34 witness: one Delete has returned success with its ID cleared and
\* another has returned the error of its wait with its ID in place.
C34_Witness ==
  \E p, q \in Procs :
    /\ IsDelete(p) /\ pc[p] = "done" /\ result[p] = "ok" /\ resId[p] = ""
    /\ IsDelete(q) /\ pc[q] = "done" /\ result[q] \in WaitFailures
    /\ resId[q] = inv[q].id.name

\* ------------------------------------------------------------------ C35
\* The results of a final read that failed.
ReadFailures == {"read_error", "read_timeout"}

\* The keys recorded by p are those of blocks whose calls were all applied;
\* a recorded key without a call is min_master_version with no upgrade
\* needed, or node_pool when no pool had an update to make.
RecordedAfterSuccess(p) ==
  \A f \in partial[p] :
    /\ \A i \in CallsOf(p, {f}) : calls[p][i].w = "ok"
    /\ CallsOf(p, {f}) = {} =>
         \/ f = "min_master_version" /\ NoUpgradeNeeded(p)
         \/ f = "node_pool"

\* Partial mode is off only with every block passed and every call applied.
OffOnlyAfterAllSteps(p) ==
  ~partialMode[p] =>
    /\ pc[p] \in {"read", "done"} /\ g[p] > NumGroups
    /\ \A i \in 1..Len(calls[p]) : calls[p][i].w = "ok"

\* C35 as stated: partial mode is switched off, and the final read made, only
\* after every step of the Update succeeded; an Update that returned an error
\* has partial mode on; a key is recorded only after its step was applied, or
\* for min_master_version when no upgrade was needed.
C35_PartialModeOnAtEveryError ==
  \A p \in Procs : IsUpdate(p) =>
    /\ OffOnlyAfterAllSteps(p)
    /\ (pc[p] = "done" /\ result[p] # "ok") => partialMode[p]
    /\ RecordedAfterSuccess(p)

\* C35 amended: partial mode is switched off, and the final read made, only
\* after every step of the Update succeeded; an Update that returned the
\* error of a check, of a conversion or of a step has partial mode on, and an
\* Update that returned the error of its final read has partial mode off; a
\* key is recorded only after its step was applied, or for min_master_version
\* when no upgrade was needed.
C35_PartialModeOnUntilFinalRead ==
  \A p \in Procs : IsUpdate(p) =>
    /\ OffOnlyAfterAllSteps(p)
    /\ pc[p] = "read" => ~partialMode[p]
    /\ pc[p] = "done" => (partialMode[p] <=> result[p] \notin ReadFailures \cup {"ok"})
    /\ RecordedAfterSuccess(p)

\* C35 witness: an Update whose two steps were applied has returned the error
\* of its final read, with partial mode off.
C35_Witness ==
  \E p \in Procs :
    /\ IsUpdate(p) /\ pc[p] = "done" /\ result[p] \in ReadFailures
    /\ Len(calls[p]) >= 2 /\ ~partialMode[p]

\* ------------------------------------------------------------------ C36
\* The Delete calls of p before the last one were all rejected: the retry
\* loop ends at the first call that is accepted.
LoopEndsAtAcceptedCall(p) ==
  \A i \in 1..(Len(calls[p]) - 1) : calls[p][i].w = "rejected"

\* Every invocation that has started has returned.
AllReturned == \A p \in Procs : pc[p] \in {"idle", "done"}

\* An invocation leaves its wait for the lock only as a holder of the lock.
LeavesLockAsHolder ==
  \A p \in Procs : (AtLock(p) /\ ~AtLock(p)') => HoldsLock(p)'

\* C36: under FairSpec the invocations that have started all return in the
\* end, so none stays waiting for the lock and no set of them deadlocks; an
\* invocation that has returned holds no lock; an invocation waiting for the
\* lock of its cluster goes on only by taking it; and the retry loop of a
\* Delete issues no call after one that was accepted.
C36_EveryInvocationReturns ==
  /\ <>[]AllReturned
  /\ [][LeavesLockAsHolder]_vars
  /\ [](\A p \in Procs : pc[p] = "done" => ~HoldsLock(p))
  /\ [](\A p \in Procs : IsDelete(p) => LoopEndsAtAcceptedCall(p))

\* C36 witness: a Delete waits for the lock of its cluster while an Update of
\* that cluster holds it with the operation of its step in flight.
C36_Witness ==
  \E p, q \in Procs :
    /\ SameCluster(p, q) /\ IsDelete(p) /\ AtLock(p) /\ ~HoldsLock(p)
    /\ IsUpdate(q) /\ HoldsLock(q) /\ pc[q] = "u_wait"
    /\ calls[q][Len(calls[q])].st = "running"

\* ------------------------------------------------------------------ C37
\* The invocations that end with a read of the cluster.
Reads(p) == inv[p].kind \in {"read", "create", "update"}

\* C37: a Read, on its own or as the final read of a Create or an Update,
\* has returned success only when its last Get observed the cluster RUNNING;
\* a Get is made again only after one that observed another status, and no
\* more once the budget has elapsed, when the Read returns the timeout; an
\* error of the Get ends the Read at that attempt with the error; and the
\* final read of a Create is made under the lock the Create took.
C37_ReadSucceedsOnlyWhenRunning ==
  \A p \in Procs : Reads(p) =>
    LET t == tries[p]
        n == Len(t)
    IN /\ \A i \in 1..(n - 1) : t[i] = "PROVISIONING"
       /\ n > 0 => pc[p] \in {"read", "done"}
       /\ (pc[p] = "done" /\ result[p] = "ok") => (n > 0 /\ t[n] = "RUNNING")
       /\ (n > 0 /\ t[n] = "RUNNING") => (pc[p] = "done" /\ result[p] = "ok")
       /\ (n > 0 /\ t[n] = "error") => (pc[p] = "done" /\ result[p] = "read_error")
       /\ (n > 0 /\ t[n] = "PROVISIONING") =>
            \/ pc[p] = "read" /\ n < MaxReadTries
            \/ pc[p] = "done" /\ result[p] = "read_timeout"
       /\ (IsCreate(p) /\ pc[p] = "read") => (HoldsLock(p) /\ acq[p] = 1 /\ rel[p] = 0)
       /\ (IsCreate(p) /\ n > 0 /\ pc[p] = "done") => (acq[p] = 1 /\ rel[p] = 1)

\* C37 witness: the final read of a Create has seen the cluster not yet
\* RUNNING and is about to make its Get again, holding the lock.
C37_Witness ==
  \E p \in Procs :
    /\ IsCreate(p) /\ pc[p] = "read" /\ HoldsLock(p)
    /\ tries[p] # << >> /\ tries[p][Len(tries[p])] = "PROVISIONING"

\* ------------------------------------------------------------------ C38
IsHealthCheck(p) == inv[p].kind \in HealthCheckKinds

\* At most one request; the wait is made only on an accepted request; the ID
\* of a Create is set once the request is accepted, before the wait, cleared
\* when the wait fails and never set on a rejected request; the read follows
\* a successful wait only.
OneAwaitedRequest(p) ==
  LET cs == calls[p]
      create == inv[p].kind = "hc_create"
  IN /\ Len(cs) <= 1
     /\ pc[p] \in {"hc_wait", "hc_read"} => Len(cs) = 1
     /\ \A i \in 1..Len(cs) :
          /\ cs[i].w \in {"waiting", "ok", "failed", "timeout"} => cs[i].st # "none"
          /\ cs[i].w = "waiting" <=> pc[p] = "hc_wait"
          /\ (create /\ cs[i].w \in {"waiting", "ok"}) => resId[p] = inv[p].name
          /\ (create /\ cs[i].w \in StepFailures) => resId[p] = ""
     /\ (create /\ resId[p] # "") => (cs # << >> /\ cs[1].st # "none")
     /\ (pc[p] = "hc_read" \/ tries[p] # << >>) =>
          (cs # << >> /\ cs[1].w = "ok" /\ inv[p].kind # "hc_delete")
     /\ (pc[p] = "done" /\ result[p] \in {"ok", "read_error"}) => (cs # << >> /\ cs[1].w = "ok")

\* C38 as stated: every Create, Update and Delete of the health check that
\* has returned issued exactly one request, awaited only if it was accepted;
\* the ID of a Create is set after the request is accepted and before the
\* wait, cleared if the wait fails, never set on a rejected request; and the
\* read follows a successful wait only.
C38_ExactlyOneRequest ==
  \A p \in Procs : IsHealthCheck(p) =>
    /\ OneAwaitedRequest(p)
    /\ pc[p] = "done" => Len(calls[p]) = 1

\* C38 amended: as stated, but a handler issues exactly one request unless
\* it has returned an error raised before the request was sent, and then none.
C38_OneRequestUnlessLocalError ==
  \A p \in Procs : IsHealthCheck(p) =>
    /\ OneAwaitedRequest(p)
    /\ pc[p] = "done" => (Len(calls[p]) = 1 <=> result[p] # "local_error")

\* C38 witness: a Create of the health check has returned the error of its
\* wait with the ID cleared again, and an Update has returned after its read.
C38_Witness ==
  \E p, q \in Procs :
    /\ inv[p].kind = "hc_create" /\ pc[p] = "done" /\ result[p] \in WaitFailures
    /\ Len(calls[p]) = 1 /\ resId[p] = ""
    /\ inv[q].kind = "hc_update" /\ pc[q] = "done" /\ result[q] = "ok"
    /\ tries[q] # << >>
====
